---- MODULE Spec2Model ----
(***************************************************************************)
(* Verification model of the agent-friendly ABI framework.                 *)
(*                                                                         *)
(*  Part I   ContractSelector (abi_agent/contract_selector.py):            *)
(*           select_contracts, create_simplified_abi, _fallback_selection. *)
(*  Part II  ZircuitAgentTestRunner (tests/test_runner.py): run_tests,     *)
(*           run_all_tests, run_test_with_retry, run_single_test,          *)
(*           evaluate_results, save_results.                               *)
(*  Part III MetricsCalculator (tests/test_metrics.py):                    *)
(*           normalize_parameter_value, calculate_string_similarity,       *)
(*           compare_parameters, compare_function_calls,                   *)
(*           evaluate_test_case, on the results of                         *)
(*           ZircuitAgent.process_query (zircuit_agent.py).                *)
(*                                                                         *)
(* Text is modelled as a sequence of one-character strings, so that        *)
(* str.lower(), str.split() and the substring test `a in b` are computed   *)
(* as the program computes them.                                           *)
(***************************************************************************)
EXTENDS Integers, Sequences, FiniteSets, TLC

VARIABLES
    \* ---- Part I: one invocation of ContractSelector.select_contracts ----
    s_pc,        \* "CALLED", "ATTEMPT_MODEL_SELECTION" (awaiting the model), "DONE", "RAISED"
    s_query,     \* user_query
    s_abis,      \* enhanced_abis: insertion-ordered mapping address -> contract data
    s_max,       \* max_contracts
    s_model,     \* what task_processor.run(...) produced ("none" while awaiting)
    s_path,      \* which path produced the return value: "none", "model", "invalid", "fallback"
    s_result,    \* the returned list of addresses
    \* ---- Part II: one invocation of ZircuitAgentTestRunner.run_tests ----
    r_pc,        \* "start", "running", "done" (returned), "raised" (exception escaped)
    r_file,      \* content of the test-case file
    r_args,      \* test_filter, max_tests, parallel
    r_setup,     \* setup_mock_data: "none" (not called), "ok", "failed"
    r_cases,     \* test_cases of run_all_tests after filter and limit
    r_eval_cases,\* test_cases of run_tests after filter and limit
    r_task,      \* per test: the state of its run_test_with_retry coroutine
    r_sem,       \* set of test positions holding a slot of the semaphore
    r_results,   \* the list `results` of run_all_tests
    r_ooo,       \* history: some test finished before a test earlier in the list
    r_ret,       \* value returned by run_tests
    r_evals,     \* evaluations computed by evaluate_results
    r_files,     \* artifacts written by save_results
    \* ---- Part III: one call of a method of MetricsCalculator ----
    m_pc,        \* "QUERY" (process_query to run), "CALLED", "DONE"
    m_op,        \* the method called
    m_agent,     \* the run of process_query that made the result ("none": a given result)
    m_actual,    \* first argument (value, actual parameters, actual calls, agent result)
    m_expected,  \* second argument (expected parameters, expected calls, test case)
    m_out        \* the value returned

svars == <<s_pc, s_query, s_abis, s_max, s_model, s_path, s_result>>
rvars == <<r_pc, r_file, r_args, r_setup, r_cases, r_eval_cases, r_task, r_sem,
           r_results, r_ooo, r_ret, r_evals, r_files>>
mvars == <<m_pc, m_op, m_agent, m_actual, m_expected, m_out>>
vars == <<svars, rvars, mvars>>

(***************************************************************************)
(* Text helpers                                                            *)
(***************************************************************************)

UpperChars == <<"A", "B", "C", "D", "E", "F", "G", "H", "I", "J", "K", "L", "M",
                "N", "O", "P", "Q", "R", "S", "T", "U", "V", "W", "X", "Y", "Z">>
LowerChars == <<"a", "b", "c", "d", "e", "f", "g", "h", "i", "j", "k", "l", "m",
                "n", "o", "p", "q", "r", "s", "t", "u", "v", "w", "x", "y", "z">>

\* str.lower() on one character.
LowerChar(c) ==
    IF \E i \in 1..26 : UpperChars[i] = c
        THEN LowerChars[CHOOSE i \in 1..26 : UpperChars[i] = c]
        ELSE c

\* str.lower()
Lower(s) == [i \in 1..Len(s) |-> LowerChar(s[i])]

\* Python's `needle in hay` for strings.
Contains(hay, needle) ==
    \E i \in 0..(Len(hay) - Len(needle)) :
        SubSeq(hay, i + 1, i + Len(needle)) = needle

\* str.split(): split on runs of whitespace, no empty words.
RECURSIVE SplitFrom(_, _, _)
SplitFrom(s, i, cur) ==
    IF i > Len(s)
        THEN IF cur = <<>> THEN <<>> ELSE <<cur>>
        ELSE IF s[i] = " "
            THEN IF cur = <<>> THEN SplitFrom(s, i + 1, <<>>)
                               ELSE <<cur>> \o SplitFrom(s, i + 1, <<>>)
            ELSE SplitFrom(s, i + 1, Append(cur, s[i]))

Split(s) == SplitFrom(s, 1, <<>>)

\* seq[:n] for n >= 0
Take(seq, n) == SubSeq(seq, 1, IF n < Len(seq) THEN n ELSE Len(seq))

RECURSIVE SumSeq(_)
SumSeq(seq) == IF seq = <<>> THEN 0 ELSE Head(seq) + SumSeq(Tail(seq))

(***************************************************************************)
(* Part I.  ContractSelector                                               *)
(***************************************************************************)

\* ---- bounds of the inputs ----
MaxCandidates == 2      \* number of candidate contracts in enhanced_abis
MaxContracts == 2       \* largest max_contracts tried (0..MaxContracts)
MaxSelected == 2        \* longest 'selected_contracts' list the model returns

\* Candidate addresses, in insertion order of enhanced_abis.
AddressPool == <<"0xA1", "0xB2", "0xC3", "0xD4">>
Addresses == {AddressPool[i] : i \in 1..MaxCandidates}
UnknownAddress == "0xZZ"

\* func_data.get('description', ...): absent key, JSON null, a JSON array, or
\* a string.
DescMissing == [tag |-> "missing", s |-> <<>>]
DescNull == [tag |-> "null", s |-> <<>>]
DescList == [tag |-> "list", s |-> <<>>]
DescStr(s) == [tag |-> "str", s |-> s]

\* One (key, value) item of an enhanced ABI mapping.  isdict: the value is a
\* dict; fnprop: it has one of 'stateMutability', 'inputs', 'parameters', 'name'.
FuncEntry(key, desc) == [key |-> key, isdict |-> TRUE, fnprop |-> TRUE, desc |-> desc]
InfoEntry(key) == [key |-> key, isdict |-> TRUE, fnprop |-> FALSE, desc |-> DescMissing]
ScalarEntry(key) == [key |-> key, isdict |-> FALSE, fnprop |-> FALSE, desc |-> DescMissing]

N_addO == <<"a", "d", "d", "O">>
N_get == <<"g", "e", "t">>
N_to == <<"t", "o">>
N_info == <<"i", "n", "f", "o">>
D_add_it == <<"A", "d", "d", " ", "i", "t">>
D_Get == <<"G", "e", "t">>

\* The contract data the candidates are drawn from.
ContractPool ==
    { <<FuncEntry(N_addO, DescStr(D_add_it))>>,
      <<FuncEntry(N_get, DescMissing), FuncEntry(N_addO, DescStr(D_Get))>>,
      <<InfoEntry(N_info), FuncEntry(N_to, DescStr(D_add_it))>>,
      <<FuncEntry(N_get, DescNull)>>,
      <<ScalarEntry(N_info), FuncEntry(N_to, DescList)>> }

Queries ==
    { <<"A", "d", "d", " ", "t", "o">>,
      <<"g", "e", "t", " ", " ", "a", "d", "d">>,
      <<"t", "o">> }

\* enhanced_abis: candidates in pool order, any non-empty or empty subset.
CandidateSets ==
    UNION { { [i \in 1..Len(addrs) |-> [address |-> addrs[i], entries |-> data[i]]] :
                data \in [1..Len(addrs) -> ContractPool] } :
            addrs \in { a \in UNION {[1..n -> Addresses] : n \in 0..MaxCandidates} :
                          \A i, j \in 1..Len(a) :
                              i < j => \E p, q \in 1..Len(AddressPool) :
                                  p < q /\ AddressPool[p] = a[i] /\ AddressPool[q] = a[j] } }

\* The test `isinstance(value, dict) and ('stateMutability' in value or ...)`.
IsFunctionEntry(e) == e.isdict /\ e.fnprop

\* create_simplified_abi: value.get('description', '')[:200] raises TypeError
\* on a null description; everything else in it is total.
SimplifyRaises(entries) ==
    \E i \in 1..Len(entries) :
        IsFunctionEntry(entries[i]) /\ entries[i].desc.tag = "null"

\* The loop of select_contracts over enhanced_abis.items() before the try block.
SimplifyAllRaises(abis) ==
    \E c \in 1..Len(abis) : SimplifyRaises(abis[c].entries)

\* _fallback_selection: func_data.get('description', '').lower() raises
\* AttributeError on a description that is no string (null, or a list, which
\* the slice [:200] of create_simplified_abi accepts).
FallbackRaises(abis) ==
    \E c \in 1..Len(abis) : \E i \in 1..Len(abis[c].entries) :
        /\ IsFunctionEntry(abis[c].entries[i])
        /\ abis[c].entries[i].desc.tag \in {"null", "list"}

\* `if len(word) > 2`
MinWordLen(word) == Len(word) > 2

\* The keyword loop of _fallback_selection for one function entry.
EntryScore(words, e) ==
    LET name == Lower(e.key)
        desc == Lower(e.desc.s)
    IN SumSeq([w \in 1..Len(words) |->
            IF MinWordLen(words[w])
                THEN (IF Contains(name, words[w]) THEN 3 ELSE 0)
                   + (IF Contains(desc, words[w]) THEN 1 ELSE 0)
                ELSE 0])

\* The score of one contract in _fallback_selection.
ContractScore(query, entries) ==
    LET words == Split(Lower(query))
    IN SumSeq([i \in 1..Len(entries) |->
            IF IsFunctionEntry(entries[i]) THEN EntryScore(words, entries[i]) ELSE 0])

\* scored_contracts before sorting: (address, score) with score > 0, in
\* the order of enhanced_abis.
RECURSIVE ScoredContracts(_, _)
ScoredContracts(query, abis) ==
    IF abis = <<>> THEN <<>>
    ELSE LET sc == ContractScore(query, Head(abis).entries)
             rest == ScoredContracts(query, Tail(abis))
         IN IF sc > 0 THEN <<[address |-> Head(abis).address, score |-> sc]>> \o rest
                      ELSE rest

\* list.sort(key=score, reverse=True): stable, descending.
RECURSIVE InsertDesc(_, _)
InsertDesc(sorted, x) ==
    IF sorted = <<>> THEN <<x>>
    ELSE IF Head(sorted).score >= x.score
        THEN <<Head(sorted)>> \o InsertDesc(Tail(sorted), x)
        ELSE <<x>> \o sorted

RECURSIVE SortByScoreDesc(_)
SortByScoreDesc(seq) ==
    IF seq = <<>> THEN <<>>
    ELSE InsertDesc(SortByScoreDesc(SubSeq(seq, 1, Len(seq) - 1)), seq[Len(seq)])

\* _fallback_selection when it does not raise.
FallbackSelection(query, abis, max) ==
    LET scored == SortByScoreDesc(ScoredContracts(query, abis))
        top == Take(scored, max)
    IN [i \in 1..Len(top) |-> top[i].address]

\* ---- what task_processor.run(..., is_json=True) can produce ----
\* An item of result['selected_contracts']: a dict with 'contract_address',
\* a plain string, or anything else.
SelectedItems ==
    {[form |-> f, addr |-> a] : f \in {"dict", "str"}, a \in {AddressPool[1], AddressPool[2], UnknownAddress}}
    \cup {[form |-> "other", addr |-> "-"]}

ModelOutcomes ==
    {[kind |-> k, items |-> <<>>] : k \in {"exception", "not_dict", "missing_field", "not_list"}}
    \cup {[kind |-> "list", items |-> it] :
             it \in UNION {[1..n -> SelectedItems] : n \in 0..MaxSelected}}

\* The extraction loop over selected_contracts.
RECURSIVE ExtractAddresses(_)
ExtractAddresses(items) ==
    IF items = <<>> THEN <<>>
    ELSE IF Head(items).form \in {"dict", "str"}
        THEN <<Head(items).addr>> \o ExtractAddresses(Tail(items))
        ELSE ExtractAddresses(Tail(items))

ModelPathResultNoLimit(items, max) == ExtractAddresses(items)
\* `return contract_addresses[:max_contracts]`
ModelPathResult(items, max) == Take(ExtractAddresses(items), max)

NoModel == [kind |-> "none", items |-> <<>>]

SelInit ==
    /\ s_query \in Queries
    /\ s_abis \in CandidateSets
    /\ s_max \in 0..MaxContracts
    /\ s_model = NoModel
    /\ s_path = "none"
    /\ s_result = <<>>
    /\ s_pc = "CALLED"

\* select_contracts up to its await: the simplification loop runs outside the
\* try block, so its exception leaves the coroutine.
SelectBegin ==
    /\ s_pc = "CALLED"
    /\ s_pc' = IF SimplifyAllRaises(s_abis) THEN "RAISED" ELSE "ATTEMPT_MODEL_SELECTION"
    /\ UNCHANGED <<s_query, s_abis, s_max, s_model, s_path, s_result>>

\* select_contracts from the return of the awaited model call to its end.
ModelReturn(out) ==
    /\ s_pc = "ATTEMPT_MODEL_SELECTION"
    /\ s_model' = out
    /\ IF out.kind = "exception"
          THEN \* except Exception: return self._fallback_selection(...)
               IF FallbackRaises(s_abis)
                  THEN /\ s_pc' = "RAISED"
                       /\ s_path' = "fallback"
                       /\ s_result' = <<>>
                  ELSE /\ s_pc' = "DONE"
                       /\ s_path' = "fallback"
                       /\ s_result' = FallbackSelection(s_query, s_abis, s_max)
          ELSE IF out.kind \in {"not_dict", "missing_field", "not_list"}
                  THEN \* logger.error(...); return []
                       /\ s_pc' = "DONE"
                       /\ s_path' = "invalid"
                       /\ s_result' = <<>>
                  ELSE /\ s_pc' = "DONE"
                       /\ s_path' = "model"
                       /\ s_result' = ModelPathResult(out.items, s_max)
    /\ UNCHANGED <<s_query, s_abis, s_max>>

SelectBeginStep == SelectBegin /\ UNCHANGED <<rvars, mvars>>
ModelReturnStep == (\E out \in ModelOutcomes : ModelReturn(out)) /\ UNCHANGED <<rvars, mvars>>

SelNext ==
    \/ SelectBeginStep
    \/ ModelReturnStep

(***************************************************************************)
(* Part II.  ZircuitAgentTestRunner                                        *)
(***************************************************************************)

\* self.max_retries
max_retries == 2
\* asyncio.Semaphore(3)
SemaphoreSlots == 3

\* ---- bound of the inputs ----
NumTests == 4           \* longest test-case file
LiveTests == 3          \* longest test-case file of the runs checked for termination

IdPool == << <<"T", "a">>, <<"t", "b">>, <<"A", "b">>, <<"g">>, <<"a", "g">>, <<"o">> >>
DigitChar == <<"0", "1", "2", "3", "4", "5", "6", "7", "8", "9">>
\* f'test_{i}'
DefaultId(i) == <<"t", "e", "s", "t", "_", DigitChar[i + 1]>>
UnknownId == <<"u", "n", "k", "n", "o", "w", "n">>

\* The rewritten query, the selected contract and the function calls of a
\* result, taken as one value: "g1" is what the agent produces when it
\* succeeds; a test case expects that ("g1") or something else ("g2").
Answers == {"g1"}
Grounds == {"g1", "g2"}

\* A record of the test-case file; a JSON value that is no object has isrec FALSE.
TestCase(k, hasid, ground) ==
    [isrec |-> TRUE, has_id |-> hasid, id |-> IF hasid THEN IdPool[k] ELSE <<>>,
     ground |-> ground]
NonRecord == [isrec |-> FALSE, has_id |-> FALSE, id |-> <<>>, ground |-> "none"]

Alternating(k) == IF k % 2 = 1 THEN "g1" ELSE "g2"

\* Test-case files: missing, not JSON, a JSON scalar, or a JSON list.  Ids
\* are unique (data model of TestCase).  Lists of up to NumTests records with
\* ids; short lists come with every ground truth and with ids left out, or end
\* with a value that is no record.
TestFiles ==
    {[kind |-> k, cases |-> <<>>] : k \in {"missing", "unparsable", "scalar"}}
    \cup {[kind |-> "list", cases |-> [k \in 1..n |-> TestCase(k, TRUE, Alternating(k))]] :
             n \in 0..NumTests}
    \cup {[kind |-> "list", cases |-> [k \in 1..n |-> TestCase(k, h[k], g[k])]] :
             n \in 1..2, h \in [1..2 -> BOOLEAN], g \in [1..2 -> Grounds]}
    \cup {[kind |-> "list", cases |-> [k \in 1..n |-> IF k = n THEN NonRecord
                                                        ELSE TestCase(k, TRUE, Alternating(k))]] :
             n \in 1..2}

NoFilter == <<>>
NoLimit == [given |-> FALSE, n |-> 0]
Limit(n) == [given |-> TRUE, n |-> n]

RunArgs ==
    [test_filter : {NoFilter, <<"A">>},
     max_tests : {NoLimit, Limit(0), Limit(2)},
     parallel : BOOLEAN]

\* load_test_cases: FileNotFoundError and JSONDecodeError give []; len() of a
\* JSON scalar raises TypeError, which the method does not catch.
load_test_cases(file) ==
    CASE file.kind \in {"missing", "unparsable"} -> [raised |-> FALSE, cases |-> <<>>]
      [] file.kind = "scalar" -> [raised |-> TRUE, cases |-> <<>>]
      [] OTHER -> [raised |-> FALSE, cases |-> file.cases]

\* `test_filter.lower() in tc.get('test_case_id', '').lower()`
MatchesFilter(tc, f) == Contains(Lower(tc.id), Lower(f))

\* `if test_filter: ...` then `if max_tests: test_cases = test_cases[:max_tests]`
SelectCases(cases, args) ==
    IF args.test_filter # <<>> /\ \E k \in 1..Len(cases) : ~cases[k].isrec
        THEN [raised |-> TRUE, cases |-> <<>>]
        ELSE LET filtered == IF args.test_filter # <<>>
                                THEN SelectSeq(cases, LAMBDA tc : MatchesFilter(tc, args.test_filter))
                                ELSE cases
                 limited == IF args.max_tests.given /\ args.max_tests.n # 0
                                THEN Take(filtered, args.max_tests.n)
                                ELSE filtered
             IN [raised |-> FALSE, cases |-> limited]

\* The selection of run_tests (lines 418-426).
SelectForEval(cases, args) == SelectCases(cases, args)
\* The selection of run_all_tests (lines 231-246).
SelectForRun(cases, args) == SelectCases(cases, args)

\* ---- results ----
NoResult ==
    [test_case_id |-> <<>>, test_index |-> 0 - 1, success |-> "absent", error |-> "none",
     retry_count |-> 0 - 1, answer |-> "none"]

\* What one awaited agent.process_query under wait_for can do.
AgentOutcomes ==
    {[kind |-> "ok", answer |-> a] : a \in Answers}
    \cup {[kind |-> k, answer |-> "none"] : k \in {"unsuccessful", "timeout", "exception"}}

TestIdOfRunOffByOne(tc, index) == IF tc.has_id THEN tc.id ELSE DefaultId(index + 1)
\* test_case.get('test_case_id', f'test_{test_index}') in run_single_test
TestIdOfRun(tc, index) == IF tc.has_id THEN tc.id ELSE DefaultId(index)

\* run_single_test: the result for one attempt.  An agent result without
\* 'success' (process_query's error dictionaries) keeps the agent's error.
run_single_test(tc, index, out) ==
    LET base == [test_case_id |-> TestIdOfRun(tc, index), test_index |-> index,
                 retry_count |-> 0 - 1]
    IN CASE out.kind = "ok" ->
              base @@ [success |-> "true", error |-> "none", answer |-> out.answer]
         [] out.kind = "unsuccessful" ->
              base @@ [success |-> "absent", error |-> "agent_error", answer |-> "none"]
         [] out.kind = "timeout" ->
              base @@ [success |-> "false", error |-> "Test timed out after 30 seconds", answer |-> "none"]
         [] OTHER ->
              base @@ [success |-> "false", error |-> "Test failed with exception: e", answer |-> "none"]

\* ---- the coroutine run_test_with_retry ----
PendingTask == [st |-> "PENDING", attempt |-> 0, last |-> NoResult, result |-> NoResult]
RunningTask == [st |-> "RUNNING", attempt |-> 0, last |-> NoResult, result |-> NoResult]

IsFinal(t) == t.st \in {"COMPLETE", "FAILED"}

OnlyTimeoutCaught(out) == out.kind = "exception"
\* The try block of run_single_test: `except asyncio.TimeoutError` and
\* `except Exception` together catch every way the awaited call can fail, so
\* no outcome leaves run_single_test as an exception.
Escapes(out) == FALSE

OneAttemptTooMany(t, res) ==
    IF res.success = "true"
        THEN [st |-> "COMPLETE", attempt |-> t.attempt, last |-> res,
              result |-> IF t.attempt > 0 THEN [res EXCEPT !.retry_count = t.attempt] ELSE res]
        ELSE IF t.attempt + 1 < max_retries + 2
            THEN [st |-> "RETRY", attempt |-> t.attempt + 1, last |-> NoResult, result |-> NoResult]
            ELSE [st |-> "FAILED", attempt |-> t.attempt, last |-> res,
                  result |-> [res EXCEPT !.retry_count = max_retries]]

\* One turn of the loop of run_test_with_retry after run_single_test returned
\* res.  `attempt` is the loop variable; `last` is last_result, which is read
\* only after the loop and is then the result of the attempt that ended it, so
\* the model keeps it from that point on.
run_test_with_retry(t, res) ==
    IF res.success = "true"
        THEN [st |-> "COMPLETE", attempt |-> t.attempt, last |-> res,
              result |-> IF t.attempt > 0 THEN [res EXCEPT !.retry_count = t.attempt] ELSE res]
        ELSE IF t.attempt + 1 < max_retries + 1
            THEN [st |-> "RETRY", attempt |-> t.attempt + 1, last |-> NoResult, result |-> NoResult]
            ELSE [st |-> "FAILED", attempt |-> t.attempt, last |-> res,
                  result |-> [res EXCEPT !.retry_count = max_retries]]

\* ---- evaluation ----
\* tc.get('test_case_id', f'test_{i}') of evaluate_results
TestCaseMapKey(tc, index) == IF tc.has_id THEN tc.id ELSE DefaultId(index)

\* test_case_map.get(test_id): position of the test case, 0 for None.  In a
\* dict comprehension the last of equal keys wins.
MapLookup(cases, id) ==
    LET hits == {k \in 1..Len(cases) : TestCaseMapKey(cases[k], k - 1) = id}
    IN IF hits = {} THEN 0 ELSE CHOOSE k \in hits : \A j \in hits : j <= k

\* evaluate_test_case, with the comparison of rewritten query, contract and
\* function calls taken as one comparison of the answer with the ground truth.
AttemptsOf(res) == IF res.retry_count < 0 THEN 1 ELSE res.retry_count + 1
\* result.get('retry_count', 0) of evaluate_results
RetryCountOf(res) == IF res.retry_count < 0 THEN 0 ELSE res.retry_count

evaluate_test_case(res, tc) ==
    [success |-> res.success = "true",
     error |-> res.error,
     test_case_id |-> IF tc.has_id THEN tc.id ELSE UnknownId,
     overall_match |-> res.success = "true" /\ res.answer = tc.ground,
     retry_count |-> RetryCountOf(res)]

\* The loop of evaluate_results.
RECURSIVE evaluate_results(_, _)
evaluate_results(results, cases) ==
    IF results = <<>> THEN <<>>
    ELSE LET k == MapLookup(cases, Head(results).test_case_id)
             rest == evaluate_results(Tail(results), cases)
         IN IF k = 0 THEN rest
                     ELSE <<evaluate_test_case(Head(results), cases[k])>> \o rest

\* calculate_aggregate_metrics: counts, and accuracy in percent (rounded down).
calculate_aggregate_metrics(evals) ==
    LET total == Len(evals)
        ok == Cardinality({k \in 1..total : evals[k].overall_match})
    IN [total_tests |-> total, successful_tests |-> ok, failed_tests |-> total - ok,
        accuracy |-> IF total = 0 THEN 0 ELSE (ok * 100) \div total]

Artifacts == {"results", "metrics", "evaluations", "report", "summary"}

NoReturn == [returned |-> FALSE, success |-> FALSE, error |-> "none",
             metrics |-> calculate_aggregate_metrics(<<>>)]

\* ---- run_tests ----
RunInit ==
    /\ r_pc = "start"
    /\ r_file \in TestFiles
    /\ r_args \in RunArgs
    /\ r_setup = "none"
    /\ r_cases = <<>>
    /\ r_eval_cases = <<>>
    /\ r_task = <<>>
    /\ r_sem = {}
    /\ r_results = <<>>
    /\ r_ooo = FALSE
    /\ r_ret = NoReturn
    /\ r_evals = <<>>
    /\ r_files = {}

\* An exception leaves run_tests.
Raise ==
    /\ r_pc' = "raised"
    /\ r_ret' = NoReturn

NoTestResultsOrNonePassed(results) ==
    \A k \in 1..Len(results) : results[k].success # "true"
\* `if not test_results:` of run_tests
NoTestResults(results) == results = <<>>

\* run_tests from the return of run_all_tests on: the run-level failure when
\* there is no result; else evaluate_results, the final mapping, save_results
\* when asked (its writes are not guarded) and print_test_summary.
Finish(results, eval_cases, save, write_ok) ==
    /\ r_results' = results
    /\ IF NoTestResults(results)
          THEN /\ r_pc' = "done"
               /\ r_ret' = [returned |-> TRUE, success |-> FALSE,
                            error |-> "No test results obtained",
                            metrics |-> calculate_aggregate_metrics(<<>>)]
               /\ r_evals' = <<>>
               /\ r_files' = {}
          ELSE LET evals == evaluate_results(results, eval_cases)
               IN /\ r_evals' = evals
                  /\ IF save /\ ~write_ok
                        THEN /\ Raise
                             /\ r_files' = {}
                        ELSE /\ r_pc' = "done"
                             /\ r_ret' = [returned |-> TRUE, success |-> TRUE, error |-> "none",
                                          metrics |-> calculate_aggregate_metrics(evals)]
                             /\ r_files' = IF save THEN Artifacts ELSE {}

\* The first statements of run_single_test outside its try block:
\* test_case.get(...) raises AttributeError on a value that is no record.
StartRaises(tc) == ~tc.isrec

\* run_tests up to its first suspension: both loads and selections,
\* setup_mock_data, and the start of the first test (sequential) or the
\* creation of the tasks (parallel).  run_all_tests returns [] when nothing
\* was loaded, nothing is left after the selection, or the setup failed.
RunStart(setup_ok) ==
    /\ r_pc = "start"
    /\ LET l1 == load_test_cases(r_file)
           ev == IF l1.raised THEN l1 ELSE SelectForEval(l1.cases, r_args)
           l2 == load_test_cases(r_file)
           sel == IF l2.raised \/ l2.cases = <<>> THEN l2 ELSE SelectForRun(l2.cases, r_args)
       IN IF ev.raised \/ sel.raised
             THEN /\ Raise
                  /\ UNCHANGED <<r_setup, r_cases, r_eval_cases, r_task, r_results, r_evals, r_files>>
             ELSE /\ r_eval_cases' = ev.cases
                  /\ r_setup' = IF sel.cases = <<>> THEN "none"
                                ELSE IF setup_ok THEN "ok" ELSE "failed"
                  /\ IF sel.cases = <<>> \/ ~setup_ok
                        THEN /\ Finish(<<>>, ev.cases, FALSE, FALSE)
                             /\ UNCHANGED <<r_cases, r_task>>
                        ELSE /\ r_cases' = sel.cases
                             /\ UNCHANGED <<r_results, r_evals, r_files>>
                             /\ IF r_args.parallel
                                   THEN /\ r_pc' = "running"
                                        /\ r_task' = [k \in 1..Len(sel.cases) |-> PendingTask]
                                        /\ r_ret' = r_ret
                                   ELSE IF StartRaises(sel.cases[1])
                                           THEN /\ Raise
                                                /\ r_task' = [k \in 1..Len(sel.cases) |-> PendingTask]
                                           ELSE /\ r_pc' = "running"
                                                /\ r_task' = [k \in 1..Len(sel.cases) |->
                                                                IF k = 1 THEN RunningTask ELSE PendingTask]
                                                /\ r_ret' = r_ret
    /\ UNCHANGED <<r_file, r_args, r_sem, r_ooo>>

SlotFreeOffByOne == Cardinality(r_sem) <= SemaphoreSlots
\* `async with semaphore` can enter: the counter of Semaphore(3) is positive.
SlotFree == Cardinality(r_sem) < SemaphoreSlots

PrependResult(results, res) == <<res>> \o results
\* results.append(result)
AppendResult(results, res) == Append(results, res)

\* Parallel mode: run_with_semaphore of test i acquires a slot and starts the
\* first attempt.  The tasks reach the semaphore in list order and its
\* waiters are woken first-in first-out.
TaskStart(i) ==
    /\ r_pc = "running"
    /\ r_args.parallel
    /\ i \in 1..Len(r_task)
    /\ r_task[i].st = "PENDING"
    /\ \A j \in 1..(i - 1) : r_task[j].st # "PENDING"
    /\ SlotFree
    /\ IF StartRaises(r_cases[i])
          THEN /\ Raise
               /\ UNCHANGED <<r_task, r_sem>>
          ELSE /\ r_task' = [r_task EXCEPT ![i] = RunningTask]
               /\ r_sem' = r_sem \cup {i}
               /\ UNCHANGED <<r_pc, r_ret>>
    /\ UNCHANGED <<r_file, r_args, r_setup, r_cases, r_eval_cases, r_results, r_ooo,
                   r_evals, r_files>>

\* The awaited agent call of test i ends (result, timeout or exception):
\* run_single_test builds the result and run_test_with_retry decides.  In
\* sequential mode the result is appended, and after the last test run_tests
\* runs to its end.
AgentReturn(i, out, save, write_ok) ==
    /\ r_pc = "running"
    /\ i \in 1..Len(r_task)
    /\ r_task[i].st = "RUNNING"
    /\ LET res == run_single_test(r_cases[i], i - 1, out)
           t == run_test_with_retry(r_task[i], res)
       IN IF Escapes(out)
             THEN /\ Raise
                  /\ UNCHANGED <<r_task, r_sem, r_results, r_ooo, r_evals, r_files>>
             ELSE
          /\ r_task' = [r_task EXCEPT ![i] = t]
          /\ IF ~IsFinal(t)
                THEN UNCHANGED <<r_pc, r_ret, r_sem, r_results, r_ooo, r_evals, r_files>>
                ELSE IF r_args.parallel
                    THEN /\ r_sem' = r_sem \ {i}
                         /\ r_ooo' = (r_ooo \/ \E j \in 1..(i - 1) : ~IsFinal(r_task[j]))
                         /\ UNCHANGED <<r_pc, r_ret, r_results, r_evals, r_files>>
                    ELSE /\ UNCHANGED <<r_sem, r_ooo>>
                         /\ IF i = Len(r_task)
                               THEN Finish(AppendResult(r_results, t.result), r_eval_cases, save, write_ok)
                               ELSE /\ r_results' = AppendResult(r_results, t.result)
                                    /\ UNCHANGED <<r_pc, r_ret, r_evals, r_files>>
    /\ UNCHANGED <<r_file, r_args, r_setup, r_cases, r_eval_cases>>

\* asyncio.sleep(1) of a retry is over: the next attempt starts.
RetryWake(i) ==
    /\ r_pc = "running"
    /\ i \in 1..Len(r_task)
    /\ r_task[i].st = "RETRY"
    /\ r_task' = [r_task EXCEPT ![i].st = "RUNNING"]
    /\ UNCHANGED <<r_pc, r_file, r_args, r_setup, r_cases, r_eval_cases, r_sem, r_results,
                   r_ooo, r_ret, r_evals, r_files>>

\* Sequential mode: asyncio.sleep(0.5) between two tests is over and the loop
\* starts the next test.
SeqNextTest ==
    /\ r_pc = "running"
    /\ ~r_args.parallel
    /\ \A j \in 1..Len(r_task) : r_task[j].st \in {"PENDING", "COMPLETE", "FAILED"}
    /\ LET i == Len(r_results) + 1
       IN /\ i \in 1..Len(r_task)
          /\ IF StartRaises(r_cases[i])
                THEN /\ Raise
                     /\ UNCHANGED r_task
                ELSE /\ r_task' = [r_task EXCEPT ![i] = RunningTask]
                     /\ UNCHANGED <<r_pc, r_ret>>
    /\ UNCHANGED <<r_file, r_args, r_setup, r_cases, r_eval_cases, r_sem, r_results, r_ooo,
                   r_evals, r_files>>

\* Parallel mode: every task is done, asyncio.gather returns the results
\* in task order and run_tests runs to its end.
GatherReturn(save, write_ok) ==
    /\ r_pc = "running"
    /\ r_args.parallel
    /\ \A j \in 1..Len(r_task) : IsFinal(r_task[j])
    /\ Finish([k \in 1..Len(r_task) |-> r_task[k].result], r_eval_cases, save, write_ok)
    /\ UNCHANGED <<r_file, r_args, r_setup, r_cases, r_eval_cases, r_task, r_sem, r_ooo>>

\* save_results (the argument) and the outcome of the writes are read only
\* by the step that ends run_tests.
EndChoices(i) == IF ~r_args.parallel /\ i = Len(r_task) THEN BOOLEAN ELSE {FALSE}

RunStartStep == (\E setup_ok \in BOOLEAN : RunStart(setup_ok)) /\ UNCHANGED <<svars, mvars>>
TaskStartStep == (\E i \in 1..NumTests : TaskStart(i)) /\ UNCHANGED <<svars, mvars>>
AgentReturnStep ==
    /\ \E i \in 1..NumTests, out \in AgentOutcomes :
          \E save \in EndChoices(i), write_ok \in EndChoices(i) :
              AgentReturn(i, out, save, write_ok)
    /\ UNCHANGED <<svars, mvars>>
RetryWakeStep == (\E i \in 1..NumTests : RetryWake(i)) /\ UNCHANGED <<svars, mvars>>
SeqNextTestStep == SeqNextTest /\ UNCHANGED <<svars, mvars>>
GatherReturnStep ==
    /\ \E save \in BOOLEAN, write_ok \in BOOLEAN : GatherReturn(save, write_ok)
    /\ UNCHANGED <<svars, mvars>>

RunNext ==
    \/ RunStartStep
    \/ TaskStartStep
    \/ AgentReturnStep
    \/ RetryWakeStep
    \/ SeqNextTestStep
    \/ GatherReturnStep

(***************************************************************************)
(* Part III: MetricsCalculator                                             *)
(***************************************************************************)

\* ---- text and numbers ----
DigitOf(c) == (CHOOSE i \in 1..10 : DigitChar[i] = c) - 1

\* str.isdigit(): not empty and every character a digit.
IsDigit(s) == s # <<>> /\ \A i \in 1..Len(s) : \E d \in 1..10 : DigitChar[d] = s[i]

\* int(s) of a string of digits.
RECURSIVE IntOfDigits(_)
IntOfDigits(s) ==
    IF s = <<>> THEN 0
    ELSE 10 * IntOfDigits(SubSeq(s, 1, Len(s) - 1)) + DigitOf(s[Len(s)])

\* str(n) of an int n >= 0.
RECURSIVE IntToStr(_)
IntToStr(n) ==
    IF n < 10 THEN <<DigitChar[n + 1]>>
    ELSE Append(IntToStr(n \div 10), DigitChar[(n % 10) + 1])

\* str.strip()
RECURSIVE Strip(_)
Strip(s) ==
    IF s = <<>> THEN s
    ELSE IF Head(s) = " " THEN Strip(Tail(s))
    ELSE IF s[Len(s)] = " " THEN Strip(SubSeq(s, 1, Len(s) - 1))
    ELSE s

Max(a, b) == IF a >= b THEN a ELSE b
Abs(a) == IF a < 0 THEN 0 - a ELSE a

\* Scores are fractions n/d in lowest terms (d > 0); the program has them as floats.
RECURSIVE Gcd(_, _)
Gcd(a, b) == IF b = 0 THEN a ELSE Gcd(b, a % b)
Frac(n, d) == LET g == Gcd(Abs(n), d) IN [n |-> n \div g, d |-> d \div g]
Zero == Frac(0, 1)
One == Frac(1, 1)
FracAdd(x, y) == Frac(x.n * y.d + y.n * x.d, x.d * y.d)
FracDiv(x, k) == Frac(x.n, x.d * k)
FracScale(x, n, d) == Frac(x.n * n, x.d * d)
FracGeq(x, y) == x.n * y.d >= y.n * x.d
RECURSIVE FracSum(_)
FracSum(seq) == IF seq = <<>> THEN Zero ELSE FracAdd(Head(seq), FracSum(Tail(seq)))
\* sum(xs) / len(xs) if xs else 0.0
Mean(seq) == IF seq = <<>> THEN Zero ELSE FracDiv(FracSum(seq), Len(seq))
BoolFrac(b) == IF b THEN One ELSE Zero

\* ---- values of parameters ----
IntV(n) == [t |-> "int", v |-> n]
StrV(s) == [t |-> "str", v |-> s]
BoolV(b) == [t |-> "bool", v |-> b]
NoneV == [t |-> "none", v |-> 0]

\* str(value)
PyStr(value) ==
    IF value.t = "int" THEN IntToStr(value.v)
    ELSE IF value.t = "bool" THEN (IF value.v THEN <<"T", "r", "u", "e">>
                                              ELSE <<"F", "a", "l", "s", "e">>)
    ELSE IF value.t = "str" THEN value.v
    ELSE <<"N", "o", "n", "e">>

\* isinstance(value, (int, float)): bool is a subclass of int.
IsIntOrFloat(value) == value.t \in {"int", "bool"}

\* normalize_parameter_value: the branches in the order of the if/elif chain.
normalize_parameter_value(value) ==
    IF IsIntOrFloat(value) THEN PyStr(value)
    ELSE IF value.t = "str" THEN Strip(Lower(value.v))
    ELSE IF value.t = "bool" THEN Lower(PyStr(value))
    ELSE PyStr(value)

\* ---- calculate_string_similarity ----
\* difflib.SequenceMatcher.find_longest_match without junk: the longest
\* common block; of those the one that starts earliest in a, then earliest in b.
CommonBlocks(a, b) ==
    {blk \in (1..Len(a)) \X (1..Len(b)) \X (1..Len(a)) :
        /\ blk[1] + blk[3] - 1 <= Len(a)
        /\ blk[2] + blk[3] - 1 <= Len(b)
        /\ SubSeq(a, blk[1], blk[1] + blk[3] - 1) = SubSeq(b, blk[2], blk[2] + blk[3] - 1)}

LongestMatch(a, b) ==
    CHOOSE blk \in CommonBlocks(a, b) :
        \A o \in CommonBlocks(a, b) :
            \/ o[3] < blk[3]
            \/ o[3] = blk[3] /\ blk[1] < o[1]
            \/ o[3] = blk[3] /\ blk[1] = o[1] /\ blk[2] <= o[2]

\* Sum of the sizes of get_matching_blocks(): the longest match, then the
\* same to its left and to its right.
RECURSIVE MatchingChars(_, _)
MatchingChars(a, b) ==
    IF CommonBlocks(a, b) = {} THEN 0
    ELSE LET blk == LongestMatch(a, b)
         IN blk[3] + MatchingChars(SubSeq(a, 1, blk[1] - 1), SubSeq(b, 1, blk[2] - 1))
                   + MatchingChars(SubSeq(a, blk[1] + blk[3], Len(a)),
                                   SubSeq(b, blk[2] + blk[3], Len(b)))

\* SequenceMatcher.ratio(): 2.0 * matches / (len(a) + len(b))
Ratio(a, b) == Frac(2 * MatchingChars(a, b), Len(a) + Len(b))

calculate_string_similarity(str1, str2) ==
    IF str1 = <<>> \/ str2 = <<>> THEN Zero ELSE Ratio(Lower(str1), Lower(str2))

\* ---- compare_parameters ----
\* A parameter set is a function from its keys (strings) to values.
EmptyParams == [k \in {} |-> NoneV]

K_amount == <<"a", "m", "o", "u", "n", "t">>
K_value == <<"v", "a", "l", "u", "e">>
K_mintfee == <<"_", "m", "i", "n", "t", "f", "e", "e">>

\* `key.lower() in ['amount', 'value', '_mintfee']`
IsNumericKey(key) == Lower(key) \in {K_amount, K_value, K_mintfee}

\* max(0, 1 - abs(exp_num - act_num) / max(exp_num, act_num, 1))
NumericSimilarity(exp_num, act_num) ==
    LET m == Max(Max(exp_num, act_num), 1)
        x == Frac(m - Abs(exp_num - act_num), m)
    IN IF FracGeq(x, Zero) THEN x ELSE Zero

\* The body of the loop over key_intersection: the similarity of one common
\* key.  (int() of a string for which isdigit() holds fails only for digits
\* outside ASCII, which the model's alphabet does not have.)
ValueSimilarity(key, expected_val, actual_val) ==
    IF expected_val = actual_val THEN One
    ELSE IF IsNumericKey(key) /\ IsDigit(expected_val) /\ IsDigit(actual_val)
        THEN NumericSimilarity(IntOfDigits(expected_val), IntOfDigits(actual_val))
        ELSE calculate_string_similarity(expected_val, actual_val)

RECURSIVE FracSumOver(_, _, _, _)
FracSumOver(keys, actual, expected, acc) ==
    IF keys = {} THEN acc
    ELSE LET key == CHOOSE k \in keys : TRUE
         IN FracSumOver(keys \ {key}, actual, expected,
                FracAdd(acc, ValueSimilarity(key, normalize_parameter_value(expected[key]),
                                                  normalize_parameter_value(actual[key]))))

EitherEmpty(actual, expected) == DOMAIN actual = {} \/ DOMAIN expected = {}
\* `if not actual and not expected`
BothEmpty(actual, expected) == DOMAIN actual = {} /\ DOMAIN expected = {}

ExactMatchesUnnormalized(actual, expected) ==
    Cardinality({key \in DOMAIN expected \cap DOMAIN actual : expected[key] = actual[key]})
\* exact_matches: the common keys whose normalized values are equal.
ExactMatches(actual, expected) ==
    Cardinality({key \in DOMAIN expected \cap DOMAIN actual :
        normalize_parameter_value(expected[key]) = normalize_parameter_value(actual[key])})

compare_parameters(actual, expected) ==
    IF BothEmpty(actual, expected) THEN [exact_match |-> TRUE, similarity |-> One]
    ELSE IF DOMAIN actual = {} \/ DOMAIN expected = {}
        THEN [exact_match |-> FALSE, similarity |-> Zero]
    ELSE LET expected_keys == DOMAIN expected
             actual_keys == DOMAIN actual
             key_intersection == expected_keys \cap actual_keys
             key_union == expected_keys \cup actual_keys
             key_similarity == Frac(Cardinality(key_intersection), Cardinality(key_union))
             avg_value_similarity ==
                 IF key_intersection = {} THEN Zero
                 ELSE FracDiv(FracSumOver(key_intersection, actual, expected, Zero),
                              Cardinality(key_intersection))
         IN [exact_match |-> /\ Cardinality(expected_keys) = Cardinality(actual_keys)
                             /\ Cardinality(actual_keys) = ExactMatches(actual, expected),
             similarity |-> FracDiv(FracAdd(key_similarity, avg_value_similarity), 2)]

\* ---- compare_function_calls ----
\* A call of a plan: 'function_name', 'parameters' and, when has_value, 'value'.
Call(name, params, has_value, value) ==
    [function_name |-> name, parameters |-> params, has_value |-> has_value, value |-> value]

\* call.get('value', '0')
ValueOf(call) == IF call.has_value THEN call.value ELSE StrV(<<"0">>)

FuncMatchCaseSensitive(actual_call, expected_call) ==
    actual_call.function_name = expected_call.function_name
\* The per-position comparisons of the loop over range(min_calls).
FuncMatch(actual_call, expected_call) ==
    Lower(actual_call.function_name) = Lower(expected_call.function_name)
ParamSimilarity(actual_call, expected_call) ==
    compare_parameters(actual_call.parameters, expected_call.parameters).similarity
ValueMatch(actual_call, expected_call) ==
    normalize_parameter_value(ValueOf(actual_call)) = normalize_parameter_value(ValueOf(expected_call))

\* `all(param >= 0.95 for param in parameter_matches)`
ParamThreshold == Frac(95, 100)
ParamsCloseEnough(parameter_matches) ==
    \A i \in 1..Len(parameter_matches) : FracGeq(parameter_matches[i], ParamThreshold)

ParameterMatchExact(parameter_accuracy) == parameter_accuracy = One
\* 'parameter_match': parameter_accuracy >= 0.9
ParameterMatch(parameter_accuracy) == FracGeq(parameter_accuracy, Frac(9, 10))

\* The two early returns have the five flags and the score only ("flags");
\* the general return has the three accuracies as well ("full").
compare_function_calls(actual, expected) ==
    IF actual = <<>> /\ expected = <<>>
        THEN [shape |-> "flags", exact_match |-> TRUE, function_name_match |-> TRUE,
              parameter_match |-> TRUE, value_match |-> TRUE, call_count_match |-> TRUE,
              similarity_score |-> One, function_name_accuracy |-> Zero,
              parameter_accuracy |-> Zero, value_accuracy |-> Zero]
    ELSE IF actual = <<>> \/ expected = <<>>
        THEN [shape |-> "flags", exact_match |-> FALSE, function_name_match |-> FALSE,
              parameter_match |-> FALSE, value_match |-> FALSE, call_count_match |-> FALSE,
              similarity_score |-> Zero, function_name_accuracy |-> Zero,
              parameter_accuracy |-> Zero, value_accuracy |-> Zero]
    ELSE LET call_count_match == Len(actual) = Len(expected)
             min_calls == IF Len(actual) < Len(expected) THEN Len(actual) ELSE Len(expected)
             function_matches == [i \in 1..min_calls |-> FuncMatch(actual[i], expected[i])]
             parameter_matches == [i \in 1..min_calls |-> ParamSimilarity(actual[i], expected[i])]
             value_matches == [i \in 1..min_calls |-> ValueMatch(actual[i], expected[i])]
             function_name_accuracy == Mean([i \in 1..min_calls |-> BoolFrac(function_matches[i])])
             parameter_accuracy == Mean(parameter_matches)
             value_accuracy == Mean([i \in 1..min_calls |-> BoolFrac(value_matches[i])])
         IN [shape |-> "full",
             exact_match |-> /\ call_count_match
                             /\ function_name_accuracy = One
                             /\ ParamsCloseEnough(parameter_matches)
                             /\ value_accuracy = One,
             function_name_match |-> function_name_accuracy = One,
             parameter_match |-> ParameterMatch(parameter_accuracy),
             value_match |-> value_accuracy = One,
             call_count_match |-> call_count_match,
             similarity_score |-> FracAdd(FracScale(function_name_accuracy, 2, 5),
                                     FracAdd(FracScale(parameter_accuracy, 2, 5),
                                             FracScale(value_accuracy, 1, 5))),
             function_name_accuracy |-> function_name_accuracy,
             parameter_accuracy |-> parameter_accuracy,
             value_accuracy |-> value_accuracy]

\* ---- ZircuitAgent.process_query ----
\* One run of process_query: its selection mode, how far it got, the address
\* of the contract it selected (the first of the selected addresses in
\* two-stage mode, the 'contract_address' of the best contract in legacy
\* mode), the rewritten query and the generated calls.
AgentRun(mode, outcome, address, query, calls) ==
    [mode |-> mode, outcome |-> outcome, address |-> address, query |-> query, calls |-> calls]
NoAgent == AgentRun("none", "none", <<>>, <<>>, <<>>)

\* A result mapping of the agent.  success is "true", "false" or "absent";
\* error is "none" when the key is absent.
AgentResult(success, error, query, has_selected, address, calls) ==
    [success |-> success, error |-> error, rewritten_query |-> query,
     has_selected_contract |-> has_selected, selected_contract_address |-> address,
     function_calls |-> calls]

process_query(run) ==
    IF run.outcome = "no_abis"
        THEN AgentResult("absent", "No enhanced ABIs available. Please run preprocessing first.",
                         <<>>, FALSE, <<>>, <<>>)
    ELSE IF run.outcome = "none_found"
        THEN AgentResult("absent", "No relevant contracts found for the query",
                         <<>>, FALSE, <<>>, <<>>)
    ELSE IF run.outcome = "raised"
        THEN AgentResult("absent", "Failed to process query: e", <<>>, FALSE, <<>>, <<>>)
    ELSE IF run.mode = "two_stage"
        THEN AgentResult("true", "none", run.query, FALSE, <<>>, run.calls)
        ELSE AgentResult("true", "none", run.query, TRUE, run.address, run.calls)

\* ---- evaluate_test_case ----
\* A test case as the evaluator reads it.  has_id FALSE: no 'test_case_id';
\* an absent rewritten query or address is the empty string of the .get default.
ExpectedCase(has_id, id, query, address, calls) ==
    [has_id |-> has_id, test_case_id |-> id, expected_rewritten_query |-> query,
     assumed_contract_address |-> address, ground_truth_calls |-> calls, absent |-> {}]

\* The test case without the keys of `keys`.
Without(tc, keys) ==
    [tc EXCEPT !.absent = keys,
               !.expected_rewritten_query =
                   IF "expected_rewritten_query" \in keys THEN <<>> ELSE @,
               !.assumed_contract_address =
                   IF "assumed_contract_address" \in keys THEN <<>> ELSE @,
               !.ground_truth_calls =
                   IF "ground_truth_function_calls" \in keys THEN <<>> ELSE @]

\* expected_result.get('expected_rewritten_query', '')
ExpectedQuery(tc) ==
    IF "expected_rewritten_query" \in tc.absent THEN <<>> ELSE tc.expected_rewritten_query
\* expected_result.get('assumed_contract_address', '')
ExpectedAddress(tc) ==
    IF "assumed_contract_address" \in tc.absent THEN <<>> ELSE tc.assumed_contract_address
\* expected_result.get('ground_truth_function_calls', {}).get('function_calling', [])
ExpectedCalls(tc) ==
    IF "ground_truth_function_calls" \in tc.absent THEN <<>> ELSE tc.ground_truth_calls

\* The 'function_call_metrics' of the failure branch.
ZeroCallMetrics ==
    [shape |-> "zero", exact_match |-> FALSE, function_name_match |-> FALSE,
     parameter_match |-> FALSE, value_match |-> FALSE, call_count_match |-> FALSE,
     similarity_score |-> Zero, function_name_accuracy |-> Zero,
     parameter_accuracy |-> Zero, value_accuracy |-> Zero]

\* actual_result.get('selected_contract', {}).get('address', '')
SelectedContract(actual_result) ==
    IF actual_result.has_selected_contract THEN actual_result.selected_contract_address ELSE <<>>

\* `a.lower() == b.lower() if a and b else False`
ContractMatch(selected_contract, expected_contract) ==
    IF selected_contract # <<>> /\ expected_contract # <<>>
        THEN Lower(selected_contract) = Lower(expected_contract)
        ELSE FALSE

SimilarityThreshold == Frac(8, 10)
\* `query_similarity >= 0.7`
QueryThreshold == Frac(7, 10)

FailedOnlyIfFalse(actual_result) == actual_result.success = "false"
\* `if not actual_result.get('success', False)`
Failed(actual_result) == actual_result.success # "true"

\* MetricsCalculator.evaluate_test_case, every field computed.
metrics_evaluate_test_case(actual_result, expected_result) ==
    LET head == [success |-> actual_result.success = "true",
                 error |-> actual_result.error,
                 test_case_id |-> IF expected_result.has_id THEN expected_result.test_case_id
                                                            ELSE UnknownId]
    IN IF Failed(actual_result)
          THEN head @@ [overall_match |-> FALSE, function_calls_match |-> FALSE,
                        rewritten_query_similarity |-> Zero,
                        contract_selection_match |-> FALSE,
                        function_call_metrics |-> ZeroCallMetrics]
          ELSE LET query_similarity ==
                       calculate_string_similarity(actual_result.rewritten_query,
                                                   ExpectedQuery(expected_result))
                   contract_match ==
                       ContractMatch(SelectedContract(actual_result),
                                     ExpectedAddress(expected_result))
                   function_call_metrics ==
                       compare_function_calls(actual_result.function_calls,
                                              ExpectedCalls(expected_result))
               IN head @@ [overall_match |-> /\ FracGeq(query_similarity, QueryThreshold)
                                             /\ contract_match
                                             /\ function_call_metrics.exact_match,
                           function_calls_match |-> function_call_metrics.exact_match,
                           rewritten_query_similarity |-> query_similarity,
                           contract_selection_match |-> contract_match,
                           function_call_metrics |-> function_call_metrics]

\* ---- calculate_aggregate_metrics ----
\* fc_metrics.get(key, 0.0): the early returns of compare_function_calls have
\* no accuracies.
AccuracyOf(fc_metrics, key) == IF fc_metrics.shape = "flags" THEN Zero ELSE fc_metrics[key]
\* fc_metrics.get(key, False): the metrics of the failure branch have no flags.
FlagOf(fc_metrics, key) == IF fc_metrics.shape = "zero" THEN FALSE ELSE fc_metrics[key]

CountWhere(evaluations, P(_)) == Cardinality({i \in 1..Len(evaluations) : P(evaluations[i])})

AgentSucceeded(evaluations) == CountWhere(evaluations, LAMBDA ev : ev.success)
\* sum(1 for eval in evaluations if eval.get('overall_match', False))
SuccessfulTests(evaluations) == CountWhere(evaluations, LAMBDA ev : ev.overall_match)

EmptyMetricsPerfect ==
    [total_tests |-> 0, successful_tests |-> 0, failed_tests |-> 0, accuracy |-> One,
     function_name_accuracy |-> Zero, parameter_accuracy |-> Zero, value_accuracy |-> Zero,
     rewritten_query_similarity |-> Zero, contract_selection_accuracy |-> Zero,
     function_name_matches |-> 0, parameter_matches |-> 0, value_matches |-> 0,
     contract_matches |-> 0, reasoning_quality_score |-> Zero]
\* The TestMetrics returned for no evaluations.
EmptyMetrics ==
    [total_tests |-> 0, successful_tests |-> 0, failed_tests |-> 0, accuracy |-> Zero,
     function_name_accuracy |-> Zero, parameter_accuracy |-> Zero, value_accuracy |-> Zero,
     rewritten_query_similarity |-> Zero, contract_selection_accuracy |-> Zero,
     function_name_matches |-> 0, parameter_matches |-> 0, value_matches |-> 0,
     contract_matches |-> 0, reasoning_quality_score |-> Zero]

\* MetricsCalculator.calculate_aggregate_metrics, every field computed.
metrics_calculate_aggregate_metrics(evaluations) ==
    LET total_tests == Len(evaluations)
        successful_tests == SuccessfulTests(evaluations)
        contract_matches == CountWhere(evaluations, LAMBDA ev : ev.contract_selection_match)
        avg_query_similarity ==
            Mean([i \in 1..total_tests |-> evaluations[i].rewritten_query_similarity])
        avg_function_name_accuracy ==
            Mean([i \in 1..total_tests |->
                    AccuracyOf(evaluations[i].function_call_metrics, "function_name_accuracy")])
        avg_parameter_accuracy ==
            Mean([i \in 1..total_tests |->
                    AccuracyOf(evaluations[i].function_call_metrics, "parameter_accuracy")])
        avg_value_accuracy ==
            Mean([i \in 1..total_tests |->
                    AccuracyOf(evaluations[i].function_call_metrics, "value_accuracy")])
    IN IF total_tests = 0 THEN EmptyMetrics
       ELSE [total_tests |-> total_tests,
             successful_tests |-> successful_tests,
             failed_tests |-> total_tests - successful_tests,
             accuracy |-> Frac(successful_tests, total_tests),
             function_name_accuracy |-> avg_function_name_accuracy,
             parameter_accuracy |-> avg_parameter_accuracy,
             value_accuracy |-> avg_value_accuracy,
             rewritten_query_similarity |-> avg_query_similarity,
             contract_selection_accuracy |-> Frac(contract_matches, total_tests),
             function_name_matches |->
                 CountWhere(evaluations,
                     LAMBDA ev : FlagOf(ev.function_call_metrics, "function_name_match")),
             parameter_matches |->
                 CountWhere(evaluations,
                     LAMBDA ev : FlagOf(ev.function_call_metrics, "parameter_match")),
             value_matches |->
                 CountWhere(evaluations,
                     LAMBDA ev : FlagOf(ev.function_call_metrics, "value_match")),
             contract_matches |-> contract_matches,
             reasoning_quality_score |->
                 FracDiv(FracAdd(avg_query_similarity,
                                 FracAdd(avg_function_name_accuracy, avg_parameter_accuracy)), 3)]

\* ---- ZircuitAgent.find_relevant_contracts ----
W_add == <<"a", "d", "d">>
W_new == <<"n", "e", "w">>
W_create == <<"c", "r", "e", "a", "t", "e">>
W_remove == <<"r", "e", "m", "o", "v", "e">>
W_delete == <<"d", "e", "l", "e", "t", "e">>
W_drop == <<"d", "r", "o", "p">>
W_swap == <<"s", "w", "a", "p">>
W_replace == <<"r", "e", "p", "l", "a", "c", "e">>
W_change == <<"c", "h", "a", "n", "g", "e">>
W_update == <<"u", "p", "d", "a", "t", "e">>
W_owner == <<"o", "w", "n", "e", "r">>
W_owners == <<"o", "w", "n", "e", "r", "s">>
W_ownership == <<"o", "w", "n", "e", "r", "s", "h", "i", "p">>
W_threshold == <<"t", "h", "r", "e", "s", "h", "o", "l", "d">>
W_limit == <<"l", "i", "m", "i", "t">>
W_confirm == <<"c", "o", "n", "f", "i", "r", "m">>
W_confirmation == <<"c", "o", "n", "f", "i", "r", "m", "a", "t", "i", "o", "n">>
W_transfer == <<"t", "r", "a", "n", "s", "f", "e", "r">>
W_send == <<"s", "e", "n", "d">>
W_move == <<"m", "o", "v", "e">>
W_approve == <<"a", "p", "p", "r", "o", "v", "e">>
W_allow == <<"a", "l", "l", "o", "w">>
W_permit == <<"p", "e", "r", "m", "i", "t">>
W_execute == <<"e", "x", "e", "c", "u", "t", "e">>
W_run == <<"r", "u", "n">>
W_call == <<"c", "a", "l", "l">>
W_addowner == <<"a", "d", "d", "o", "w", "n", "e", "r">>
W_removeowner == <<"r", "e", "m", "o", "v", "e", "o", "w", "n", "e", "r">>
W_swapowner == <<"s", "w", "a", "p", "o", "w", "n", "e", "r">>

\* The intents and their synonyms, in the order of the dict.
action_keywords ==
    << [action |-> W_add, keywords |-> <<W_add, W_new, W_create>>],
       [action |-> W_remove, keywords |-> <<W_remove, W_delete, W_drop>>],
       [action |-> W_swap, keywords |-> <<W_swap, W_replace, W_change, W_update>>],
       [action |-> W_owner, keywords |-> <<W_owner, W_owners, W_ownership>>],
       [action |-> W_threshold, keywords |-> <<W_threshold, W_limit, W_confirm, W_confirmation>>],
       [action |-> W_transfer, keywords |-> <<W_transfer, W_send, W_move>>],
       [action |-> W_approve, keywords |-> <<W_approve, W_allow, W_permit>>],
       [action |-> W_execute, keywords |-> <<W_execute, W_run, W_call>>] >>

\* any(word in text for word in words)
AnyIn(words, text) == \E i \in 1..Len(words) : Contains(text, words[i])

\* The if/elif chain on the function name: the score it adds (0 when no branch is taken).
PatternScore(query_lower, func_name_lower) ==
    IF Contains(func_name_lower, W_addowner) /\ AnyIn(<<W_add, W_new, W_owner>>, query_lower)
        THEN 10
    ELSE IF Contains(func_name_lower, W_removeowner)
              /\ AnyIn(<<W_remove, W_delete, W_owner>>, query_lower)
        THEN 10
    ELSE IF Contains(func_name_lower, W_swapowner)
              /\ AnyIn(<<W_swap, W_replace, W_change, W_owner>>, query_lower)
        THEN 10
    ELSE IF Contains(func_name_lower, W_threshold) /\ Contains(query_lower, W_threshold)
        THEN 8
    ELSE 0

\* The intents found in the query whose synonyms occur in the text.
IntentHits(query_lower, text) ==
    {a \in 1..Len(action_keywords) :
        /\ Contains(query_lower, action_keywords[a].action)
        /\ AnyIn(action_keywords[a].keywords, text)}

\* `if len(word) > 3`
LongWord(word) == Len(word) > 3

\* The loop over query_lower.split() for one function.
WordScore(query_lower, func_name_lower, description) ==
    LET query_words == Split(query_lower)
    IN SumSeq([w \in 1..Len(query_words) |->
            IF LongWord(query_words[w])
                THEN (IF Contains(func_name_lower, query_words[w]) THEN 2 ELSE 0)
                   + (IF Contains(description, query_words[w]) THEN 1 ELSE 0)
                ELSE 0])

\* What one item of functions adds to score; an item that is no dict is skipped.
FunctionScore(query_lower, e) ==
    IF ~e.isdict THEN 0
    ELSE LET func_name_lower == Lower(e.key)
             description == Lower(e.desc.s)
         IN PatternScore(query_lower, func_name_lower)
              + 5 * Cardinality(IntentHits(query_lower, func_name_lower))
              + 3 * Cardinality(IntentHits(query_lower, description))
              + WordScore(query_lower, func_name_lower, description)

\* How many times one item of functions is appended to matched_functions.
TimesMatched(query_lower, e) ==
    IF ~e.isdict THEN 0
    ELSE (IF PatternScore(query_lower, Lower(e.key)) > 0 THEN 1 ELSE 0)
           + Cardinality(IntentHits(query_lower, Lower(e.key)))

\* matched_functions: the names appended, in order, with their repetitions.
RECURSIVE MatchedFunctions(_, _)
MatchedFunctions(query_lower, functions) ==
    IF functions = <<>> THEN <<>>
    ELSE [i \in 1..TimesMatched(query_lower, Head(functions)) |-> Head(functions).key]
            \o MatchedFunctions(query_lower, Tail(functions))

\* `if len(matched_functions) > 1: score += 3`
MultipleBonus(matched_functions) == IF Len(matched_functions) > 1 THEN 3 ELSE 0
\* `if len(functions) < 3: score -= 2`
FewFunctionsPenalty(functions) == IF Len(functions) < 3 THEN 2 ELSE 0

\* score of one candidate after the bonus and the penalty.
RelevanceScore(query_lower, functions) ==
    SumSeq([i \in 1..Len(functions) |-> FunctionScore(query_lower, functions[i])])
        + MultipleBonus(MatchedFunctions(query_lower, functions))
        - FewFunctionsPenalty(functions)

KeptNonNegative(score) == score >= 0
\* `if score > 0`
Kept(score) == score > 0

\* relevant_contracts before the sort.  The functions of a candidate are its
\* entries; a candidate without functions is skipped.
RECURSIVE RelevantContracts(_, _)
RelevantContracts(query_lower, abis) ==
    IF abis = <<>> THEN <<>>
    ELSE LET functions == Head(abis).entries
             score == RelevanceScore(query_lower, functions)
             rest == RelevantContracts(query_lower, Tail(abis))
         IN IF functions # <<>> /\ Kept(score)
               THEN <<[address |-> Head(abis).address, score |-> score,
                       matched_functions |-> MatchedFunctions(query_lower, functions)]>> \o rest
               ELSE rest

\* func_data.get('description', '').lower() raises AttributeError on a
\* description that is no string.
FindRaises(abis) ==
    \E c \in 1..Len(abis) : \E i \in 1..Len(abis[c].entries) :
        abis[c].entries[i].isdict /\ abis[c].entries[i].desc.tag \in {"null", "list"}

\* find_relevant_contracts when it does not raise.
find_relevant_contracts(query, abis, max_contracts) ==
    Take(SortByScoreDesc(RelevantContracts(Lower(query), abis)), max_contracts)

\* ---- the inputs of the calls ----
MaxKeys == 2            \* most keys of a parameter set
MaxCalls == 2           \* longest call sequence

K_Amount == <<"A", "m", "o", "u", "n", "t">>
K_fee == <<"f", "e", "e">>
K_to == <<"t", "o">>
ParamKeys == {K_Amount, K_fee, K_to}

V_true == <<"t", "r", "u", "e">>
ParamValues ==
    {IntV(10), IntV(11), StrV(<<"1", "0", " ">>), StrV(<<"A", "b">>), StrV(<<"a", "c">>),
     BoolV(TRUE), StrV(V_true)}
Values == ParamValues \cup {BoolV(FALSE), StrV(<<"f", "a", "l", "s", "e">>), IntV(0), IntV(1), NoneV}

ParamSets ==
    UNION {[K -> ParamValues] : K \in {K \in SUBSET ParamKeys : Cardinality(K) <= MaxKeys}}

F_go == <<"g", "o">>
F_Go == <<"G", "o">>
F_to == <<"t", "o">>
Amount(v) == [k \in {K_Amount} |-> v]
CallPool ==
    {Call(F_go, Amount(IntV(10)), FALSE, NoneV),
     Call(F_Go, Amount(StrV(<<"1", "0", " ">>)), TRUE, StrV(<<"0">>)),
     Call(F_to, Amount(IntV(10)), FALSE, NoneV),
     Call(F_go, Amount(IntV(11)), FALSE, NoneV),
     Call(F_go, [k \in {K_to} |-> StrV(<<"A", "b">>)], FALSE, NoneV),
     Call(F_go, Amount(IntV(10)), TRUE, IntV(1)),
     Call(F_go, EmptyParams, TRUE, IntV(0))}
CallSeqs == UNION {[1..n -> CallPool] : n \in 0..MaxCalls}

A_0xA == <<"0", "x", "A">>
A_0xa == <<"0", "x", "a">>
A_0xb == <<"0", "x", "b">>
Q_abcd == <<"a", "b", "c", "d">>
Q_ABCx == <<"A", "B", "C", "x">>
Q_abxy == <<"a", "b", "x", "y">>
PlanPool ==
    {<<>>,
     <<Call(F_go, Amount(IntV(10)), FALSE, NoneV)>>,
     <<Call(F_go, Amount(IntV(11)), FALSE, NoneV)>>,
     <<Call(F_to, Amount(IntV(10)), FALSE, NoneV)>>}

\* The runs of process_query: both modes; an agent that stops early carries
\* nothing else.
AgentRuns ==
    {AgentRun(mode, "ok", a, q, p) :
        mode \in {"two_stage", "legacy"}, a \in {A_0xA, A_0xb, <<>>},
        q \in {Q_ABCx, Q_abxy}, p \in PlanPool}
    \cup {AgentRun(mode, o, <<>>, <<>>, <<>>) :
        mode \in {"two_stage", "legacy"}, o \in {"no_abis", "none_found", "raised"}}

\* Results given to the evaluator directly.
GivenResults ==
    {AgentResult(s, e, Q_abcd, TRUE, A_0xA, <<Call(F_go, Amount(IntV(10)), FALSE, NoneV)>>) :
        s \in {"true", "false", "absent"}, e \in {"none", "Test error"}}

ExpectedCases ==
    {ExpectedCase(h, IF h THEN IdPool[1] ELSE <<>>, q, a, p) :
        h \in BOOLEAN, q \in {Q_abcd, <<>>}, a \in {A_0xa, <<>>},
        p \in {<<>>, <<Call(F_go, Amount(IntV(10)), FALSE, NoneV)>>}}
    \cup {Without(ExpectedCase(TRUE, IdPool[1], Q_abcd, A_0xa,
                               <<Call(F_go, Amount(IntV(10)), FALSE, NoneV)>>), keys) :
            keys \in (SUBSET {"expected_rewritten_query", "assumed_contract_address",
                              "ground_truth_function_calls"}) \ {{}}}

MaxEvals == 2           \* longest list of evaluations

\* Evaluations as evaluate_test_case makes them: of given results and of
\* the results of legacy runs, against the test cases with an id.
EvalPool ==
    {metrics_evaluate_test_case(res, tc) :
        res \in GivenResults \cup {process_query(run) : run \in {a \in AgentRuns : a.mode = "legacy"}},
        tc \in {c \in ExpectedCases : c.has_id /\ c.absent = {}}}
EvalLists == UNION {[1..n -> EvalPool] : n \in 0..MaxEvals}

N_addOwner == <<"a", "d", "d", "O", "w", "n", "e", "r">>
N_removeOwner == <<"r", "e", "m", "o", "v", "e", "O", "w", "n", "e", "r">>
N_changeThreshold == <<"c", "h", "a", "n", "g", "e", "T", "h", "r", "e", "s", "h", "o", "l", "d">>
N_getOwners == <<"g", "e", "t", "O", "w", "n", "e", "r", "s">>
N_version == <<"v", "e", "r", "s", "i", "o", "n">>
D_add_owner == <<"A", "d", "d", " ", "a", " ", "n", "e", "w", " ", "o", "w", "n", "e", "r">>
D_remove == <<"R", "e", "m", "o", "v", "e", " ", "a", "n", " ", "o", "w", "n", "e", "r">>
D_list == <<"L", "i", "s", "t", " ", "o", "w", "n", "e", "r", "s">>

\* The candidates find_relevant_contracts is called with.
FindPool ==
    { <<FuncEntry(N_addOwner, DescStr(D_add_owner))>>,
      <<FuncEntry(N_addOwner, DescMissing), FuncEntry(N_removeOwner, DescStr(D_remove)),
        FuncEntry(N_changeThreshold, DescMissing)>>,
      <<FuncEntry(N_getOwners, DescStr(D_list)), ScalarEntry(N_version)>>,
      <<FuncEntry(N_getOwners, DescStr(D_list)), FuncEntry(N_changeThreshold, DescMissing),
        ScalarEntry(N_version)>>,
      <<>>,
      <<FuncEntry(N_get, DescNull)>> }

FindQueries ==
    { <<"A", "d", "d", " ", "o", "w", "n", "e", "r">>,
      <<"c", "h", "a", "n", "g", "e", " ", "t", "h", "r", "e", "s", "h", "o", "l", "d">>,
      <<"r", "e", "m", "o", "v", "e", " ", " ", "n", "e", "w", " ", "O", "w", "n", "e", "r", "s">>,
      <<"t", "o">> }

FindCandidateSets ==
    UNION { { [i \in 1..n |-> [address |-> AddressPool[i], entries |-> data[i]]] :
                data \in [1..n -> FindPool] } : n \in 0..MaxCandidates }

FindCalls ==
    {[query |-> q, abis |-> a, max_contracts |-> m] :
        q \in FindQueries, a \in FindCandidateSets, m \in 0..MaxContracts}

\* ---- one call ----
NoOutput == <<>>

MetInit ==
    /\ m_out = NoOutput
    /\ \/ /\ m_op = "normalize_parameter_value"
          /\ m_pc = "CALLED"
          /\ m_agent = NoAgent
          /\ m_actual \in Values
          /\ m_expected = <<>>
       \/ /\ m_op = "compare_parameters"
          /\ m_pc = "CALLED"
          /\ m_agent = NoAgent
          /\ m_actual \in ParamSets
          /\ m_expected \in ParamSets
       \/ /\ m_op = "compare_function_calls"
          /\ m_pc = "CALLED"
          /\ m_agent = NoAgent
          /\ m_actual \in CallSeqs
          /\ m_expected \in CallSeqs
       \/ /\ m_op = "evaluate_test_case"
          /\ m_pc = "CALLED"
          /\ m_agent = NoAgent
          /\ m_actual \in GivenResults
          /\ m_expected \in ExpectedCases
       \/ /\ m_op = "find_relevant_contracts"
          /\ m_pc = "CALLED"
          /\ m_agent = NoAgent
          /\ m_actual \in FindCalls
          /\ m_expected = <<>>
       \/ /\ m_op = "calculate_aggregate_metrics"
          /\ m_pc = "CALLED"
          /\ m_agent = NoAgent
          /\ m_actual \in EvalLists
          /\ m_expected = <<>>
       \/ /\ m_op = "evaluate_test_case"
          /\ m_pc = "QUERY"
          /\ m_agent \in AgentRuns
          /\ m_actual = <<>>
          /\ m_expected \in ExpectedCases

\* The test runner's attempt: process_query returns the result to evaluate.
ProcessQuery ==
    /\ m_pc = "QUERY"
    /\ m_pc' = "CALLED"
    /\ m_actual' = process_query(m_agent)
    /\ UNCHANGED <<m_op, m_agent, m_expected, m_out>>

Return(out) ==
    /\ m_pc = "CALLED"
    /\ m_pc' = "DONE"
    /\ m_out' = out
    /\ UNCHANGED <<m_op, m_agent, m_actual, m_expected>>

Normalize == m_op = "normalize_parameter_value" /\ Return(normalize_parameter_value(m_actual))
CompareParameters ==
    m_op = "compare_parameters" /\ Return(compare_parameters(m_actual, m_expected))
CompareFunctionCalls ==
    m_op = "compare_function_calls" /\ Return(compare_function_calls(m_actual, m_expected))
EvaluateTestCase ==
    m_op = "evaluate_test_case" /\ Return(metrics_evaluate_test_case(m_actual, m_expected))

CalculateAggregateMetrics ==
    m_op = "calculate_aggregate_metrics" /\ Return(metrics_calculate_aggregate_metrics(m_actual))

\* An exception of find_relevant_contracts leaves it without a value.
FindRelevantContracts ==
    /\ m_op = "find_relevant_contracts"
    /\ IF FindRaises(m_actual.abis)
          THEN /\ m_pc = "CALLED"
               /\ m_pc' = "RAISED"
               /\ UNCHANGED <<m_op, m_agent, m_actual, m_expected, m_out>>
          ELSE Return(find_relevant_contracts(m_actual.query, m_actual.abis,
                                              m_actual.max_contracts))

ProcessQueryStep == ProcessQuery /\ UNCHANGED <<svars, rvars>>
FindRelevantContractsStep == FindRelevantContracts /\ UNCHANGED <<svars, rvars>>
CalculateAggregateMetricsStep == CalculateAggregateMetrics /\ UNCHANGED <<svars, rvars>>
NormalizeStep == Normalize /\ UNCHANGED <<svars, rvars>>
CompareParametersStep == CompareParameters /\ UNCHANGED <<svars, rvars>>
CompareFunctionCallsStep == CompareFunctionCalls /\ UNCHANGED <<svars, rvars>>
EvaluateTestCaseStep == EvaluateTestCase /\ UNCHANGED <<svars, rvars>>

MetNext ==
    \/ ProcessQueryStep
    \/ NormalizeStep
    \/ CompareParametersStep
    \/ CompareFunctionCallsStep
    \/ EvaluateTestCaseStep
    \/ CalculateAggregateMetricsStep
    \/ FindRelevantContractsStep

(***************************************************************************)
(* Specifications                                                          *)
(***************************************************************************)

\* The selector alone: the runner stays at its initial state.
RunIdle ==
    /\ r_pc = "start"
    /\ r_file = [kind |-> "missing", cases |-> <<>>]
    /\ r_args = [test_filter |-> NoFilter, max_tests |-> NoLimit, parallel |-> FALSE]
    /\ r_setup = "none"
    /\ r_cases = <<>>
    /\ r_eval_cases = <<>>
    /\ r_task = <<>>
    /\ r_sem = {}
    /\ r_results = <<>>
    /\ r_ooo = FALSE
    /\ r_ret = NoReturn
    /\ r_evals = <<>>
    /\ r_files = {}

\* The runner alone: the selector stays at its initial state.
SelIdle ==
    /\ s_pc = "CALLED"
    /\ s_query = <<>>
    /\ s_abis = <<>>
    /\ s_max = 0
    /\ s_model = NoModel
    /\ s_path = "none"
    /\ s_result = <<>>

\* No call of the metrics calculator.
MetIdle ==
    /\ m_pc = "DONE"
    /\ m_op = "none"
    /\ m_agent = NoAgent
    /\ m_actual = <<>>
    /\ m_expected = <<>>
    /\ m_out = NoOutput

SelSpecInit == SelInit /\ RunIdle /\ MetIdle
RunSpecInit == RunInit /\ SelIdle /\ MetIdle
MetSpecInit == MetInit /\ SelIdle /\ RunIdle

SelSpec == SelSpecInit /\ [][SelNext]_vars

RunSpec == RunSpecInit /\ [][RunNext]_vars

MetSpec == MetSpecInit /\ [][MetNext]_vars

\* The event loop runs every callback that is ready, and wait_for ends every
\* agent call (with its result, its exception or the timeout).
\* Termination is checked on the runs of the files of at most LiveTests cases.
RunFairSpecInit ==
    /\ RunSpecInit
    /\ r_file.kind = "list" => Len(r_file.cases) <= LiveTests

RunFairSpec == RunFairSpecInit /\ [][RunNext]_vars /\ WF_vars(RunNext)

(***************************************************************************)
(* Claims about ContractSelector (checked under SelSpec)                   *)
(***************************************************************************)

ModelFailed == s_model.kind \in {"exception", "not_dict", "missing_field", "not_list"}

\* C1: whenever select_contracts finishes after a failed model attempt (an
\* exception, a result that is no mapping, a mapping without
\* 'selected_contracts', or a 'selected_contracts' that is no list), it has run
\* _fallback_selection on the same query and candidates and returns its result.
C1_EveryModelFailureFallsBack ==
    (s_pc = "DONE" /\ ModelFailed)
        => s_result = FallbackSelection(s_query, s_abis, s_max)

\* C2: select_contracts never raises: no invocation ends with an exception
\* leaving it, whatever the candidates' description fields and whatever the
\* model call does.
C2_SelectNeverRaises == s_pc # "RAISED"

Min(a, b) == IF a < b THEN a ELSE b

\* The candidate with a given address.
EntriesOf(abis, addr) ==
    (CHOOSE c \in {abis[k] : k \in 1..Len(abis)} : c.address = addr).entries

\* C3: the returned list has at most max_contracts addresses; on the model
\* path it is the usable entries of the model's list, in the model's order, cut
\* to the first max_contracts; on the fallback path it holds the
\* min(max_contracts, number of positively scored candidates) best scored
\* candidates in non-increasing score order.
C3_AtMostMaxInRelevanceOrder ==
    s_pc = "DONE" =>
        /\ Len(s_result) <= s_max
        /\ s_path = "model" =>
              LET usable == SelectSeq(s_model.items, LAMBDA it : it.form # "other")
              IN /\ Len(s_result) = Min(s_max, Len(usable))
                 /\ \A k \in 1..Len(s_result) : s_result[k] = usable[k].addr
        /\ s_path = "fallback" =>
              LET score(a) == ContractScore(s_query, EntriesOf(s_abis, a))
                  positive == {k \in 1..Len(s_abis) : ContractScore(s_query, s_abis[k].entries) > 0}
                  returned == {s_result[k] : k \in 1..Len(s_result)}
              IN /\ Len(s_result) = Min(s_max, Cardinality(positive))
                 /\ Cardinality(returned) = Len(s_result)
                 /\ \A k \in 1..Len(s_result) :
                       /\ \E c \in positive : s_abis[c].address = s_result[k]
                       /\ k < Len(s_result) => score(s_result[k]) >= score(s_result[k + 1])
                 /\ \A c \in positive :
                       s_abis[c].address \notin returned =>
                           \A a \in returned : score(a) >= score(s_abis[c].address)

\* The model lists more usable entries than max_contracts allows and the list
\* is cut.
C3_Witness ==
    /\ s_pc = "DONE"
    /\ s_path = "model"
    /\ s_max >= 1
    /\ Len(ExtractAddresses(s_model.items)) > s_max
    /\ Len(s_result) = s_max

(***************************************************************************)
(* Claims about the test runner (checked under RunSpec / RunFairSpec)      *)
(***************************************************************************)

Tests == 1..Len(r_task)
Active == {i \in Tests : r_task[i].st \in {"RUNNING", "RETRY"}}

C4_TaskInv ==
    \A i \in Tests :
        LET t == r_task[i]
        IN /\ t.attempt \in 0..max_retries
           /\ t.st = "PENDING" => t.attempt = 0
           /\ t.st = "COMPLETE" =>
                 /\ t.last.success = "true"
                 /\ t.result = IF t.attempt > 0 THEN [t.last EXCEPT !.retry_count = t.attempt]
                                                ELSE t.last
           /\ t.st = "FAILED" =>
                 /\ t.attempt = max_retries
                 /\ t.last.success # "true"
                 /\ t.result = [t.last EXCEPT !.retry_count = max_retries]

C4_TaskStep ==
    \A i \in Tests \cap (1..Len(r_task')) :
        LET t == r_task[i]
            u == r_task'[i]
        IN /\ IsFinal(t) => u = t
           /\ (t.st = "PENDING" /\ u # t) => u = RunningTask
           /\ (t.st = "RETRY" /\ u # t) => (u.st = "RUNNING" /\ u.attempt = t.attempt)
           /\ (t.st = "RUNNING" /\ u # t) =>
                 \/ u.st = "COMPLETE" /\ u.attempt = t.attempt
                 \/ u.st = "RETRY" /\ u.attempt = t.attempt + 1
                 \/ u.st = "FAILED" /\ u.attempt = t.attempt
           /\ \A out \in AgentOutcomes :
                 (\E save \in BOOLEAN, write_ok \in BOOLEAN : AgentReturn(i, out, save, write_ok)) =>
                     IF out.kind = "ok"
                        THEN /\ u.st = "COMPLETE"
                             /\ u.last = run_single_test(r_cases[i], i - 1, out)
                        ELSE /\ u.st = IF t.attempt < max_retries THEN "RETRY" ELSE "FAILED"
                             /\ u.st = "FAILED" => u.last = run_single_test(r_cases[i], i - 1, out)

\* C4: a test is attempted at most max_retries + 1 times; an attempt whose
\* result is successful ends the test at once with that result and the test
\* never runs again; a further attempt follows only a failed attempt, by one,
\* while attempts remain; the test fails only at its (max_retries + 1)-th
\* failed attempt, with the result of that attempt.
C4_RetryStateMachine == [](C4_TaskInv) /\ [][C4_TaskStep]_vars

\* One test failed after three attempts and another completed on a retry.
C4_Witness ==
    /\ \E i \in Tests : r_task[i].st = "FAILED"
    /\ \E i \in Tests : r_task[i].st = "COMPLETE" /\ r_task[i].result.retry_count = 1

AllRecords == \A k \in 1..Len(r_cases) : r_cases[k].isrec
RunAllTestsReturned == r_pc \in {"done", "raised"} /\ Len(r_results) = Len(r_cases)

C5_Inv ==
    /\ (r_pc = "raised" /\ r_task # <<>> /\ AllRecords) =>
          (Len(r_results) = Len(r_cases) /\ \A i \in Tests : IsFinal(r_task[i]))
    /\ (r_pc \in {"done", "raised"} /\ r_task # <<>> /\ AllRecords) =>
          \A k \in 1..Len(r_results) :
              /\ r_results[k].test_index = k - 1
              /\ r_task[k].last.error \in {"Test timed out after 30 seconds", "Test failed with exception: e"} =>
                    /\ r_results[k].success = "false"
                    /\ r_results[k].error = r_task[k].last.error

\* C5: once the tests of a list of records are running, in either mode and
\* whatever the agent does in each attempt, run_all_tests eventually returns
\* one result per test case, in list order; an exception never leaves the run
\* before that, and a test that ended on a timeout or an exception is a result
\* with success = false and the error message.
C5_BatchNeverAborts ==
    /\ [](C5_Inv)
    /\ (r_pc = "running" /\ AllRecords) ~> RunAllTestsReturned

\* A run has ended; a test that timed out three times is followed by a test
\* that succeeded.
C5_Witness ==
    /\ r_pc = "done"
    /\ \E k \in 1..(Len(r_results) - 1) :
          /\ r_results[k].error = "Test timed out after 30 seconds"
          /\ r_results[k + 1].success = "true"

\* C6: no exception leaves run_tests, whatever the test-case file holds,
\* whatever the agent does and whether or not the artifacts can be written.
C6_NoExceptionEscapesRunTests == r_pc # "raised"

\* C7: in sequential mode at most one test is in flight, a test starts only
\* when the test before it has reached its final state, and the result list
\* holds the results of the finished tests in list order.
C7_SequentialInListOrder ==
    (~r_args.parallel /\ r_task # <<>>) =>
        /\ Cardinality(Active) <= 1
        /\ \A i \in 1..(Len(r_task) - 1) :
              r_task[i + 1].st # "PENDING" => IsFinal(r_task[i])
        /\ Len(r_results) = Cardinality({i \in Tests : IsFinal(r_task[i])})
        /\ \A k \in 1..Len(r_results) :
              /\ r_results[k] = r_task[k].result
              /\ r_results[k].test_index = k - 1
        /\ r_pc = "done" => Len(r_results) = Len(r_cases)

\* A sequential run of three tests or more has returned; its first test was retried.
C7_Witness ==
    /\ ~r_args.parallel
    /\ r_pc = "done"
    /\ Len(r_results) >= 3
    /\ r_task[1].attempt > 0

\* C8: in parallel mode at most SemaphoreSlots tests hold a slot, the
\* tests holding a slot are exactly the tests that are running or waiting for a
\* retry (a slot is kept across retries and released at the final state), so at
\* most SemaphoreSlots agent calls are in flight.
C8_BoundedConcurrency ==
    /\ Cardinality(r_sem) <= SemaphoreSlots
    /\ (r_args.parallel /\ r_task # <<>>) =>
          /\ r_sem = Active
          /\ Cardinality({i \in Tests : r_task[i].st = "RUNNING"}) <= SemaphoreSlots

\* All slots are taken, one of them by a test waiting for its retry, while a
\* further test waits for a slot.
C8_Witness ==
    /\ r_args.parallel
    /\ Cardinality(r_sem) = SemaphoreSlots
    /\ \E i \in r_sem : r_task[i].st = "RETRY"
    /\ \E i \in Tests : r_task[i].st = "PENDING"

Matched == {k \in Tests : r_task[k].st = "COMPLETE" /\ r_task[k].last.answer = r_cases[k].ground}

\* C9: when run_tests returns its results, there is one evaluation per
\* result, the k-th is the evaluation of the k-th test's result against the
\* ground truth of the k-th test case (found by its id, or by its positional
\* default id), and the counts of the aggregate metrics are those of the
\* per-test outcomes, whatever the order in which the tests finished.
C9_ResultsMappedById ==
    (r_pc = "done" /\ r_ret.success) =>
        /\ Len(r_results) = Len(r_cases)
        /\ Len(r_evals) = Len(r_results)
        /\ \A k \in 1..Len(r_evals) :
              /\ r_results[k].test_case_id =
                    IF r_cases[k].has_id THEN r_cases[k].id ELSE DefaultId(k - 1)
              /\ r_evals[k].overall_match = (k \in Matched)
              /\ r_evals[k].error = r_task[k].last.error
              /\ r_evals[k].retry_count =
                    IF r_task[k].st = "FAILED" THEN max_retries ELSE r_task[k].attempt
        /\ r_ret.metrics.total_tests = Len(r_cases)
        /\ r_ret.metrics.successful_tests = Cardinality(Matched)
        /\ r_ret.metrics.failed_tests = Len(r_cases) - Cardinality(Matched)

\* A parallel run has returned; a test finished before an earlier one, a test
\* case has no id, and one test matched its ground truth while another did not.
C9_Witness ==
    /\ r_pc = "done"
    /\ r_ret.success
    /\ r_args.parallel
    /\ r_ooo
    /\ \E k \in Tests : ~r_cases[k].has_id
    /\ \E k \in 1..Len(r_evals) : r_evals[k].overall_match
    /\ \E k \in 1..Len(r_evals) : ~r_evals[k].overall_match

\* No test case is loaded, or none has an id that contains the filter.
NothingToRun ==
    \/ r_file.kind # "list"
    \/ r_file.cases = <<>>
    \/ /\ r_args.test_filter # <<>>
       /\ \A k \in 1..Len(r_file.cases) :
             ~Contains(Lower(r_file.cases[k].id), Lower(r_args.test_filter))

\* C10: when run_tests returns, success is false exactly when no test was
\* executed, which is exactly when nothing was loaded, nothing was left after
\* filtering or the setup of the test data failed; then the error is 'No test
\* results obtained' and there are no evaluations and no artifacts; success is
\* true whenever a test was executed, also when every test failed.
C10_OnlyNoResultsIsRunFailure ==
    r_ret.returned =>
        /\ r_pc = "done"
        /\ ~r_ret.success <=> r_task = <<>>
        /\ ~r_ret.success <=> r_results = <<>>
        /\ ~r_ret.success <=> (NothingToRun \/ r_setup = "failed")
        /\ ~r_ret.success =>
              /\ r_ret.error = "No test results obtained"
              /\ r_evals = <<>>
              /\ r_files = {}
        /\ r_ret.success => r_ret.error = "none"

\* run_tests has returned success although every one of two or more tests failed.
C10_Witness ==
    /\ r_ret.returned
    /\ r_ret.success
    /\ Len(r_task) >= 2
    /\ \A i \in Tests : r_task[i].st = "FAILED"

\* The test cases of the file whose id contains the filter, in file order.
MatchingCases ==
    LET loaded == IF r_file.kind = "list" THEN r_file.cases ELSE <<>>
    IN SelectSeq(loaded, LAMBDA tc : \/ r_args.test_filter = <<>>
                                     \/ Contains(Lower(tc.id), Lower(r_args.test_filter)))

\* C11: the executed test cases are the first max_tests, in file order, of
\* the test cases whose id contains the filter ignoring case, so at most
\* max_tests test cases are executed for every given max_tests >= 0, and the
\* test cases run_tests evaluates against are the same selection (in the runs
\* whose test data were set up).
C11_FilterThenTruncate ==
    (r_pc \in {"running", "done"} /\ r_setup # "failed") =>
        LET expected == IF r_args.max_tests.given
                           THEN Take(MatchingCases, r_args.max_tests.n)
                           ELSE MatchingCases
        IN /\ r_cases = expected
           /\ r_eval_cases = expected
           /\ Len(r_task) = Len(expected)
           /\ r_args.max_tests.given => Len(r_task) <= r_args.max_tests.n

(***************************************************************************)
(* Claims about MetricsCalculator (checked under MetSpec)                  *)
(***************************************************************************)

Returned(op) == m_op = op /\ m_pc = "DONE"

\* C12: normalize_parameter_value maps True to "true" and False to "false".
C12_BooleansLowerCase ==
    (Returned("normalize_parameter_value") /\ m_actual.t = "bool") =>
        m_out = IF m_actual.v THEN V_true ELSE <<"f", "a", "l", "s", "e">>

SameNormalized(actual, expected) ==
    /\ DOMAIN actual = DOMAIN expected
    /\ \A key \in DOMAIN expected :
          normalize_parameter_value(actual[key]) = normalize_parameter_value(expected[key])

\* C13: for non-empty parameter sets compare_parameters returns an exact
\* match if and only if the two sets have the same keys and, for every key,
\* equal normalized values.
C13_ExactMatchIffSameKeysAndValues ==
    (Returned("compare_parameters") /\ DOMAIN m_actual # {} /\ DOMAIN m_expected # {}) =>
        (m_out.exact_match <=> SameNormalized(m_actual, m_expected))

\* An exact match of two sets of two keys that are equal only after normalization.
C13_Witness ==
    /\ Returned("compare_parameters")
    /\ Cardinality(DOMAIN m_actual) = 2
    /\ m_out.exact_match
    /\ \A key \in DOMAIN m_actual : m_actual[key] # m_expected[key]

\* C14: compare_parameters gives (true, 1.0) when both parameter sets are
\* empty and (false, 0.0) when exactly one is, whichever it is.
C14_EmptyParameterSets ==
    Returned("compare_parameters") =>
        /\ (DOMAIN m_actual = {} /\ DOMAIN m_expected = {}) =>
              m_out = [exact_match |-> TRUE, similarity |-> One]
        /\ ((DOMAIN m_actual = {}) # (DOMAIN m_expected = {})) =>
              m_out = [exact_match |-> FALSE, similarity |-> Zero]

\* The actual parameters are empty and two are expected.
C14_Witness ==
    /\ Returned("compare_parameters")
    /\ DOMAIN m_actual = {}
    /\ Cardinality(DOMAIN m_expected) = 2
    /\ m_out.similarity = Zero

EndsWith(s, suffix) ==
    Len(s) >= Len(suffix) /\ SubSeq(s, Len(s) - Len(suffix) + 1, Len(s)) = suffix

\* 'amount', 'value' or a key that ends in 'fee', ignoring case.
AmountLikeKey(key) ==
    \/ Lower(key) \in {K_amount, K_value}
    \/ EndsWith(Lower(key), K_fee)

\* C15: for two parameter sets with the same single key, an amount-like key
\* (amount, value, or ending in a fee suffix) whose normalized values differ
\* and are both non-negative integers is scored max(0, 1 - |a-b| / max(a,b,1));
\* every other key by the string similarity of the normalized values.
C15_TolerantNumericKeys ==
    (/\ Returned("compare_parameters")
     /\ Cardinality(DOMAIN m_actual) = 1
     /\ DOMAIN m_actual = DOMAIN m_expected) =>
        LET key == CHOOSE k \in DOMAIN m_actual : TRUE
            a == normalize_parameter_value(m_actual[key])
            e == normalize_parameter_value(m_expected[key])
            per_key == IF a = e THEN One
                       ELSE IF AmountLikeKey(key) /\ IsDigit(a) /\ IsDigit(e)
                           THEN NumericSimilarity(IntOfDigits(e), IntOfDigits(a))
                           ELSE calculate_string_similarity(e, a)
        IN m_out.similarity = FracDiv(FracAdd(One, per_key), 2)

NonEmptyCalls == m_actual # <<>> /\ m_expected # <<>>
SamePlan(actual, expected) ==
    /\ Len(actual) = Len(expected)
    /\ \A i \in 1..Len(actual) :
          /\ Lower(actual[i].function_name) = Lower(expected[i].function_name)
          /\ FracGeq(compare_parameters(actual[i].parameters, expected[i].parameters).similarity,
                     Frac(95, 100))
          /\ normalize_parameter_value(ValueOf(actual[i]))
                = normalize_parameter_value(ValueOf(expected[i]))

\* C16: for non-empty call sequences exact_match is true if and only if
\* the sequences have the same length and at every position the names are
\* equal ignoring case, the parameter similarity is at least 0.95 and the
\* normalized attached values (default "0") are equal; sequences of different
\* length have call_count_match = false and exact_match = false.
C16_ExactMatchOfCallSequences ==
    (Returned("compare_function_calls") /\ NonEmptyCalls) =>
        /\ m_out.exact_match <=> SamePlan(m_actual, m_expected)
        /\ m_out.call_count_match <=> (Len(m_actual) = Len(m_expected))
        /\ Len(m_actual) # Len(m_expected) => ~m_out.exact_match

\* An exact match of two calls each, with a name that differs in case.
C16_Witness ==
    /\ Returned("compare_function_calls")
    /\ Len(m_actual) = 2
    /\ m_out.exact_match
    /\ \E i \in 1..2 : m_actual[i].function_name # m_expected[i].function_name

\* C17: when compare_function_calls returns exact_match = true, then at
\* every position the names are equal ignoring case, the attached values are
\* equal under normalization and compare_parameters reports an exact match.
C17_ExactMatchMeansEqualFields ==
    (Returned("compare_function_calls") /\ NonEmptyCalls /\ m_out.exact_match) =>
        /\ Len(m_actual) = Len(m_expected)
        /\ \A i \in 1..Len(m_actual) :
              /\ Lower(m_actual[i].function_name) = Lower(m_expected[i].function_name)
              /\ normalize_parameter_value(ValueOf(m_actual[i]))
                    = normalize_parameter_value(ValueOf(m_expected[i]))
              /\ compare_parameters(m_actual[i].parameters, m_expected[i].parameters).exact_match

\* C18: for a result whose success is false or absent the evaluation has
\* every match flag false, similarity 0 and the function-call metrics at zero,
\* the error of the result and the id of the expected test case.
C18_FailedResultEvaluation ==
    (Returned("evaluate_test_case") /\ m_actual.success # "true") =>
        /\ ~m_out.success
        /\ ~m_out.overall_match
        /\ ~m_out.function_calls_match
        /\ ~m_out.contract_selection_match
        /\ m_out.rewritten_query_similarity = Zero
        /\ ~m_out.function_call_metrics.exact_match
        /\ m_out.function_call_metrics.similarity_score = Zero
        /\ m_out.function_call_metrics.function_name_accuracy = Zero
        /\ m_out.function_call_metrics.parameter_accuracy = Zero
        /\ m_out.function_call_metrics.value_accuracy = Zero
        /\ m_out.error = m_actual.error
        /\ m_expected.has_id => m_out.test_case_id = m_expected.test_case_id

\* A result without 'success' that otherwise agrees with the test case.
C18_Witness ==
    /\ Returned("evaluate_test_case")
    /\ m_actual.success = "absent"
    /\ m_actual.error = "Test error"
    /\ m_expected.has_id
    /\ m_actual.function_calls = m_expected.ground_truth_calls
    /\ m_actual.rewritten_query = m_expected.expected_rewritten_query
    /\ ~m_out.overall_match

\* C19: for a successful result overall_match is true if and only if the
\* rewritten-query similarity is at least 0.7, the contract selection matches
\* and the function calls match exactly; function_calls_match is the
\* exact_match of the function-call comparison.
C19_OverallMatch ==
    (Returned("evaluate_test_case") /\ m_actual.success = "true") =>
        /\ m_out.rewritten_query_similarity =
              calculate_string_similarity(m_actual.rewritten_query,
                                          m_expected.expected_rewritten_query)
        /\ m_out.function_call_metrics =
              compare_function_calls(m_actual.function_calls, m_expected.ground_truth_calls)
        /\ m_out.function_calls_match = m_out.function_call_metrics.exact_match
        /\ m_out.overall_match <=>
              /\ FracGeq(m_out.rewritten_query_similarity, Frac(7, 10))
              /\ m_out.contract_selection_match
              /\ m_out.function_call_metrics.exact_match
        /\ m_out.overall_match => (m_out.function_calls_match /\ m_out.contract_selection_match)

\* An overall match whose rewritten query is similar (0.75) and not equal.
C19_Witness ==
    /\ Returned("evaluate_test_case")
    /\ m_out.overall_match
    /\ m_out.rewritten_query_similarity = Frac(3, 4)

\* C20: for a successful result of process_query, in two-stage and in
\* legacy mode, contract_selection_match is true exactly when the address the
\* agent selected and the expected address are both non-empty and equal
\* ignoring case.
C20_ContractSelectionMatch ==
    (Returned("evaluate_test_case") /\ m_agent # NoAgent /\ m_actual.success = "true") =>
        (m_out.contract_selection_match <=>
            /\ m_agent.address # <<>>
            /\ m_expected.assumed_contract_address # <<>>
            /\ Lower(m_agent.address) = Lower(m_expected.assumed_contract_address))

\* C21: for a successful result and a test case without its expected
\* rewritten query, its expected address or its ground-truth calls, the
\* evaluation is a non-match (overall_match = false), and without ground-truth
\* calls the function-call comparison is no match.
C21_MissingExpectedFieldsNoMatch ==
    (Returned("evaluate_test_case") /\ m_actual.success = "true" /\ m_expected.absent # {}) =>
        /\ ~m_out.overall_match
        /\ "ground_truth_function_calls" \in m_expected.absent => ~m_out.function_calls_match

\* C22: calculate_aggregate_metrics on no evaluations returns the
\* all-zero metrics: every count 0 and every ratio 0.
C22_NoEvaluationsAllZero ==
    (Returned("calculate_aggregate_metrics") /\ m_actual = <<>>) =>
        /\ \A f \in {"total_tests", "successful_tests", "failed_tests", "function_name_matches",
                     "parameter_matches", "value_matches", "contract_matches"} : m_out[f] = 0
        /\ \A f \in {"accuracy", "function_name_accuracy", "parameter_accuracy",
                     "value_accuracy", "rewritten_query_similarity",
                     "contract_selection_accuracy", "reasoning_quality_score"} :
              m_out[f] = Zero

\* The call on the empty list has returned.
C22_Witness ==
    /\ Returned("calculate_aggregate_metrics")
    /\ m_actual = <<>>
    /\ m_out.total_tests = 0

InUnitInterval(x) == FracGeq(x, Zero) /\ FracGeq(One, x)

\* C23: for a non-empty list of evaluations total_tests is their number,
\* successful_tests the number with overall_match, failed_tests the rest,
\* accuracy and contract_selection_accuracy the shares of the matches, every
\* ratio lies in [0,1], and accuracy is 1 when every evaluation matched.
C23_AggregateCounts ==
    (Returned("calculate_aggregate_metrics") /\ m_actual # <<>>) =>
        LET n == Len(m_actual)
            matched == {i \in 1..n : m_actual[i].overall_match}
            contracts == {i \in 1..n : m_actual[i].contract_selection_match}
        IN /\ m_out.total_tests = n
           /\ m_out.successful_tests = Cardinality(matched)
           /\ m_out.successful_tests + m_out.failed_tests = m_out.total_tests
           /\ m_out.accuracy.n * n = Cardinality(matched) * m_out.accuracy.d
           /\ m_out.contract_matches = Cardinality(contracts)
           /\ m_out.contract_selection_accuracy.n * n
                 = Cardinality(contracts) * m_out.contract_selection_accuracy.d
           /\ \A f \in {"accuracy", "function_name_accuracy", "parameter_accuracy",
                        "value_accuracy", "rewritten_query_similarity",
                        "contract_selection_accuracy", "reasoning_quality_score"} :
                 InUnitInterval(m_out[f])
           /\ Cardinality(matched) = n => m_out.accuracy = One

\* Two evaluations of successful results, one a match and one not: accuracy 1/2.
C23_Witness ==
    /\ Returned("calculate_aggregate_metrics")
    /\ Len(m_actual) = 2
    /\ \A i \in 1..2 : m_actual[i].success
    /\ m_out.successful_tests = 1
    /\ m_out.accuracy = Frac(1, 2)

\* The position of a returned candidate in enhanced_abis.
PositionOf(abis, address) == CHOOSE c \in 1..Len(abis) : abis[c].address = address

\* C24: find_relevant_contracts returns at most max_contracts candidates,
\* each with a score above 0, in non-increasing order of score, candidates of
\* equal score in their order in enhanced_abis, and a candidate with a
\* positive score is left out only when the list is full and holds nothing
\* that ranks below it.
C24_ScoredCandidatesRanked ==
    Returned("find_relevant_contracts") =>
        LET abis == m_actual.abis
            query_lower == Lower(m_actual.query)
            ScoreAt(c) == RelevanceScore(query_lower, abis[c].entries)
            Pos(i) == PositionOf(abis, m_out[i].address)
        IN /\ Len(m_out) <= m_actual.max_contracts
           /\ \A i \in 1..Len(m_out) :
                 /\ \E c \in 1..Len(abis) : abis[c].address = m_out[i].address
                 /\ m_out[i].score = ScoreAt(Pos(i))
                 /\ m_out[i].score > 0
           /\ \A i, j \in 1..Len(m_out) :
                 i < j => /\ m_out[i].score >= m_out[j].score
                          /\ m_out[i].score = m_out[j].score => Pos(i) < Pos(j)
           /\ \A c \in 1..Len(abis) :
                 (ScoreAt(c) > 0 /\ \A i \in 1..Len(m_out) : Pos(i) # c) =>
                     /\ Len(m_out) = m_actual.max_contracts
                     /\ \A i \in 1..Len(m_out) :
                           \/ m_out[i].score > ScoreAt(c)
                           \/ m_out[i].score = ScoreAt(c) /\ Pos(i) < c

\* Two candidates of the same positive score and room for one: the first is returned.
C24_Witness ==
    /\ Returned("find_relevant_contracts")
    /\ Len(m_actual.abis) = 2
    /\ m_actual.max_contracts = 1
    /\ RelevanceScore(Lower(m_actual.query), m_actual.abis[1].entries)
          = RelevanceScore(Lower(m_actual.query), m_actual.abis[2].entries)
    /\ Len(m_out) = 1
    /\ m_out[1].address = AddressPool[1]

\* C25: _fallback_selection returns the addresses find_relevant_contracts
\* ranks first, in the same order, up to max_contracts.
C25_FallbackIsRelevanceScorer ==
    (s_pc = "DONE" /\ s_path = "fallback") =>
        LET ranked == find_relevant_contracts(s_query, s_abis, s_max)
        IN s_result = [i \in 1..Len(ranked) |-> ranked[i].address]

\* C26: the score of a returned candidate is the sum over its functions, plus
\* 3 exactly when more than one of its functions matched, minus 2 exactly
\* when it has fewer than 3 functions.
C26_BonusForSeveralFunctions ==
    Returned("find_relevant_contracts") =>
        \A i \in 1..Len(m_out) :
            LET functions == m_actual.abis[PositionOf(m_actual.abis, m_out[i].address)].entries
                query_lower == Lower(m_actual.query)
                matched == {f \in 1..Len(functions) : TimesMatched(query_lower, functions[f]) > 0}
            IN m_out[i].score =
                  SumSeq([f \in 1..Len(functions) |-> FunctionScore(query_lower, functions[f])])
                    + (IF Cardinality(matched) > 1 THEN 3 ELSE 0)
                    - (IF Len(functions) < 3 THEN 2 ELSE 0)

\* C27: every address select_contracts returns is the address of one of
\* the candidates it was given.
C27_SelectedAddressesAreCandidates ==
    s_pc = "DONE" =>
        \A i \in 1..Len(s_result) : \E c \in 1..Len(s_abis) : s_abis[c].address = s_result[i]

\* C28: for two non-empty parameter sets the similarity of
\* compare_parameters lies in [0,1], it is 1 exactly when exact_match is
\* true, and it is above 0 when the sets have a key in common.
C28_SimilarityOneIffExactMatch ==
    (Returned("compare_parameters") /\ DOMAIN m_actual # {} /\ DOMAIN m_expected # {}) =>
        /\ InUnitInterval(m_out.similarity)
        /\ m_out.exact_match <=> m_out.similarity = One
        /\ DOMAIN m_actual \cap DOMAIN m_expected # {} => m_out.similarity # Zero

\* C29: in the result of compare_function_calls exact_match implies
\* call_count_match, function_name_match, parameter_match and value_match,
\* and exact_match is false when function_name_match, value_match or
\* call_count_match is false.
C29_SubFlagsConsistent ==
    Returned("compare_function_calls") =>
        /\ m_out.exact_match =>
              /\ m_out.call_count_match
              /\ m_out.function_name_match
              /\ m_out.parameter_match
              /\ m_out.value_match
        /\ (~m_out.function_name_match \/ ~m_out.value_match \/ ~m_out.call_count_match)
              => ~m_out.exact_match

\* An exact match of two plans whose parameters are close but not equal.
C29_Witness ==
    /\ Returned("compare_function_calls")
    /\ m_out.shape = "full"
    /\ m_out.exact_match
    /\ m_out.parameter_accuracy # One

\* C30: the retry_count of a test result is the number of retries made.
\* attempt is the loop variable of run_test_with_retry when the test ended, and
\* each turn of the loop calls the agent once, so the agent was called
\* attempt + 1 times.  A success of the first attempt has no retry_count and is
\* evaluated as 0, a success of a later attempt has retry_count = attempt, an
\* exhausted test has retry_count = max_retries, and every evaluated
\* retry_count is in 0..max_retries.
C30_RetryCountIsRetries ==
    /\ \A i \in Tests :
          LET t == r_task[i]
          IN IsFinal(t) =>
                /\ (t.st = "COMPLETE" /\ t.attempt = 0) => t.result.retry_count < 0
                /\ (t.st = "COMPLETE" /\ t.attempt > 0) => t.result.retry_count = t.attempt
                /\ t.st = "FAILED" =>
                      (t.result.retry_count = max_retries /\ t.attempt = max_retries)
                /\ RetryCountOf(t.result) = t.attempt
                /\ RetryCountOf(t.result) \in 0..max_retries
    /\ \A k \in 1..Len(r_evals) :
          /\ r_evals[k].retry_count \in 0..max_retries
          /\ \E i \in Tests : IsFinal(r_task[i]) /\ r_evals[k].retry_count = r_task[i].attempt

\* The evaluations of a run hold a first-attempt success, a success of the
\* last attempt and an exhausted test.
C30_Witness ==
    /\ \E i \in Tests : r_task[i].st = "COMPLETE" /\ r_task[i].attempt = 0
    /\ \E i \in Tests : r_task[i].st = "COMPLETE" /\ r_task[i].attempt = max_retries
    /\ \E k \in 1..Len(r_evals) : r_evals[k].retry_count = 0 /\ r_evals[k].success
    /\ \E k \in 1..Len(r_evals) : r_evals[k].retry_count = max_retries /\ r_evals[k].success
    /\ \E k \in 1..Len(r_evals) : r_evals[k].retry_count = max_retries /\ ~r_evals[k].success

====
